---------------------------- MODULE Spec2Model ----------------------------
(***************************************************************************)
(* A model of the info-getter scraper (src/src/scraper.js,                 *)
(* src/src/extractor.js, src/src/storage.js, src/src/cli.js).              *)
(*                                                                         *)
(* JavaScript runs one continuation at a time: a step of the model is the  *)
(* code that runs between two awaits.  Three specifications share the      *)
(* module's variables:                                                     *)
(*   Spec        the discovery engine: scrape / scrapeWithSubdivision,     *)
(*               processPlaces and its workers, getPlaceDetails;           *)
(*   ScrollSpec  the scrollResults loop;                                   *)
(*   StoreSpec   the CLI's onResult handler and storage.appendResult.      *)
(***************************************************************************)
EXTENDS Naturals, Sequences, FiniteSets

VARIABLES
    mode,           \* "scrape" or "sweep": the entry point that was called
    nTasks,         \* subQueries.length (1 in scrape mode)
    concurrency,    \* this.concurrency
    mainPc,         \* where the entry point's async function stands
    pending,        \* how the try block was left: "return" or "throw"
    returned,       \* the array the entry point resolved with
    browser,        \* this.browser: "null" or "open"
    context,        \* this.context: "null" or "open"
    i,              \* the sweep's loop index, counted from 1
    checkedNames,   \* this.checkedNames
    allResults,     \* scrapeWithSubdivision's Map, in insertion order
    queue,          \* processPlaces' queue, one per call (per task)
    results,        \* processPlaces' results, one per call
    processed,      \* processPlaces' processed counter, one per call
    total,          \* processPlaces' total (placeUrls.length), one per call
    workers,        \* the worker promises of each processPlaces call
    calls,          \* the records each call handed to this.onResult, in order
    progress,       \* the sweep's error reports given to this.onProgress
    attempts,       \* history: how often each reference went to getPlaceDetails
    yielded,        \* history: the non-null values getPlaceDetails resolved with
    taskLog,        \* history: the tasks attempted, in order, with their outcome
    folded,         \* history: the records of the processPlaces calls that resolved
    linksUsed,      \* history: references handed out by the searches so far
    qualified,      \* history: the names registered by a qualifying listing
    sc,             \* scrollResults: its locals and position
    store,          \* the CLI's output file and the appendResult calls in flight
    fn,             \* a call of one of the extractor's or the storage's functions
    cli,            \* successive runs of the CLI on one output file
    life,           \* launch() and close() called directly on a scraper
    search,         \* searchPlaces / searchPlacesDirect: its locals and position
    fetch           \* one worker's page operations over the runs of one scraper

vars == <<mode, nTasks, concurrency, mainPc, pending, returned, browser, context,
          i, checkedNames, allResults, queue, results, processed, total, workers,
          calls, progress, attempts, yielded, taskLog, folded, linksUsed, qualified,
          sc, store, fn, cli, life, search, fetch>>

\* the parts that only the specifications of single functions use
sideVars == <<fn, cli, life, search, fetch>>

engineVars == <<mode, nTasks, concurrency, mainPc, pending, returned, browser,
                context, i, checkedNames, allResults, queue, results, processed,
                total, workers, calls, progress, attempts, yielded, taskLog,
                folded, linksUsed, qualified>>

---------------------------------------------------------------------------
(* Bounds of the model. *)

\* subQueries.length is at most MaxTasks
MaxTasks == 2
\* the searches of one run hand out at most MaxLinks references together
MaxLinks == 2
\* options.concurrency is at most MaxWorkers
MaxWorkers == 2
\* scrollResults' maxScrolls parameter is at most MaxScrolls
MaxScrolls == 6
\* the results container's scrollHeight is at most MaxHeight
MaxHeight == 2
\* onResult is called at most MaxStreamed times
MaxStreamed == 3

\* the arrays given to mergeResults hold at most MaxMerge records each
MaxMerge == 2
\* the CLI is run at most MaxRuns times on the output file
MaxRuns == 2
\* one run of the CLI streams at most MaxPerRun records
MaxPerRun == 2

\* a text given to the extractor is made of at most MaxFragments fragments
MaxFragments == 2

\* launch() and close() are called at most MaxCalls times on one scraper
MaxCalls == 5

Tasks == 1..MaxTasks

---------------------------------------------------------------------------
(* Values.  A JavaScript string is a sequence of characters; null and the  *)
(* empty string are both the empty sequence: the code only ever tests      *)
(* them for truthiness (name || null, placeId || name, if (foundEmail)).   *)

NULL == <<>>
Truthy(x) == x # <<>>

\* the second argument whatever the first is
QueueLength(a, b) == b

Min(a, b) == IF a <= b THEN a ELSE b

\* String.prototype.toLowerCase, character by character
LowerChar(c) ==
    CASE c = "A" -> "a" [] c = "B" -> "b" [] c = "C" -> "c" [] c = "F" -> "f"
      [] c = "E" -> "e" [] c = "R" -> "r" [] c = "D" -> "d" [] c = "G" -> "g"
      [] c = "H" -> "h" [] c = "I" -> "i" [] c = "J" -> "j" [] c = "K" -> "k"
      [] c = "L" -> "l" [] c = "M" -> "m" [] c = "N" -> "n" [] c = "O" -> "o"
      [] c = "P" -> "p" [] c = "Q" -> "q" [] c = "S" -> "s" [] c = "T" -> "t"
      [] c = "U" -> "u" [] c = "V" -> "v" [] c = "W" -> "w" [] c = "X" -> "x"
      [] c = "Y" -> "y" [] c = "Z" -> "z"
      [] OTHER -> c

RECURSIVE ToLowerCase(_)
ToLowerCase(s) ==
    IF s = <<>> THEN <<>> ELSE <<LowerChar(Head(s))>> \o ToLowerCase(Tail(s))


---------------------------------------------------------------------------
(* The listings a reference can resolve to.  A Page is what the detail     *)
(* page shows: the text of its h1, the place segment of its URL, whether   *)
(* its text holds a closed phrase, whether a website element exists, and   *)
(* the business emails in its text.                                        *)

CafeA == <<"C", "a", "f", "e">>
CafeAUpper == <<"C", "A", "F", "E">>
BarB == <<"B", "a", "r">>
PlaceOne == <<"p", "1">>
PlaceTwo == <<"p", "2">>
PageMail == <<"i", "@", "x">>
FoundMail == <<"g", "@", "m">>

Pages ==
    { [h1 |-> CafeA,      place |-> PlaceOne, closed |-> FALSE, website |-> FALSE, mails |-> <<>>],
      [h1 |-> CafeAUpper, place |-> NULL,     closed |-> FALSE, website |-> FALSE, mails |-> <<PageMail>>],
      [h1 |-> BarB,       place |-> PlaceOne, closed |-> FALSE, website |-> FALSE, mails |-> <<PageMail>>],
      [h1 |-> BarB,       place |-> PlaceTwo, closed |-> FALSE, website |-> TRUE,  mails |-> <<>>],
      [h1 |-> CafeA,      place |-> PlaceTwo, closed |-> TRUE,  website |-> FALSE, mails |-> <<>>],
      [h1 |-> NULL,       place |-> PlaceTwo, closed |-> FALSE, website |-> FALSE, mails |-> <<>>] }

\* The step of extractPlaceDetails at which a page operation throws; the
\* function's own catch swallows the error and returns what it has so far.
FailPoints == {"none", "h1", "text", "website"}

\* extractor.js extractPlaceDetails: the fields it fills, in the code's order.
\* (phone and address are read between the closed check and the website
\* check; nothing in the engine reads them, so the record leaves them out.)
ExtractPlaceDetails(page, failAt) ==
    [ placeId    |-> page.place,
      name       |-> IF failAt = "h1" THEN NULL ELSE page.h1,
      isActive   |-> IF failAt \in {"h1", "text"} THEN TRUE ELSE ~page.closed,
      hasWebsite |-> IF failAt = "none" THEN page.website ELSE FALSE,
      emails     |-> IF failAt = "none" THEN page.mails ELSE <<>> ]

\* What extractPlaceDetails can return
ExtractedDetails ==
    {ExtractPlaceDetails(page, failAt) : page \in Pages, failAt \in FailPoints}

\* What searchEmailForBusiness can resolve with: an address or null.
LookupResults == {NULL, FoundMail}

---------------------------------------------------------------------------
(* getPlaceDetails, after extractPlaceDetails returned details d.          *)

\* a dedup check that never finds the name
NeverChecked(d, names) == FALSE

\* scraper.js 263-266: the name was already checked
AlreadyChecked(d, names) == Truthy(d.name) /\ ToLowerCase(d.name) \in names

\* a dedup set that only takes the names of listings that pass the gate
RegisterIfQualifies(d, names) ==
    IF Truthy(d.name) /\ ~d.hasWebsite /\ d.isActive
    THEN names \cup {ToLowerCase(d.name)}
    ELSE names

\* scraper.js 263-269: the dedup set after the check
Register(d, names) ==
    IF Truthy(d.name) THEN names \cup {ToLowerCase(d.name)} ELSE names

\* Gate without the website test
GateIgnoringWebsite(d) == Truthy(d.name) /\ d.isActive

\* scraper.js 272: only return if the place has no website and is active
Gate(d) == ~d.hasWebsite /\ Truthy(d.name) /\ d.isActive

\* scraper.js 274: the secondary lookup runs when no email was extracted
NeedsLookup(d) == Len(d.emails) = 0

\* scraper.js 276-278: fold the lookup's answer into the record
WithFoundEmail(d, found) ==
    IF Truthy(found) THEN [d EXCEPT !.emails = <<found>>] ELSE d

---------------------------------------------------------------------------
(* processPlaces.                                                          *)

\* Shift that reads the head and leaves it in the queue
ShiftKeepingHead(q) == [url |-> Head(q), rest |-> q]

\* Array.prototype.shift on the shared queue
Shift(q) == [url |-> Head(q), rest |-> Tail(q)]

\* A worker that has just taken url and called getPlaceDetails, which
\* stands at its first await (context.newPage()).  ret is the value
\* getPlaceDetails will return (none or one record), held the record that
\* waits for the secondary lookup; qual, dup and lateShift are history.
Fetching(url, owing) ==
    [pc |-> "fetching", url |-> url, ret |-> <<>>, held |-> <<>>,
     qual |-> FALSE, dup |-> <<>>, lateShift |-> owing]

\* A worker whose loop has ended, or whose promise has rejected.
Stopped(w, pc) ==
    [w EXCEPT !.pc = pc, !.ret = <<>>, !.held = <<>>, !.qual = FALSE, !.dup = <<>>]

\* scraper.js 401-403: Array(min(concurrency, queue.length)).map(() => worker()).
\* Each worker() runs to its first await before the next one starts, so the
\* k workers take the first k references in order.  The result is the queue
\* that is left and the workers.
RECURSIVE StartWorkers(_, _)
StartWorkers(k, q) ==
    IF k = 0 \/ Len(q) = 0
    THEN [queue |-> q, workers |-> <<>>]
    ELSE LET s == Shift(q)
             more == StartWorkers(k - 1, s.rest)
         IN  [queue |-> more.queue,
              workers |-> <<Fetching(s.url, FALSE)>> \o more.workers]

\* Report that pushes the record and never calls onResult
ReportWithoutCallback(p) ==
    [results |-> p.results \o p.owed, calls |-> p.calls, owed |-> <<>>]

\* scraper.js 391-394: results.push(details); this.onResult(details).
\* p is the call's [results, calls, owed]; owed is the record the worker
\* still has to report.
Report(p) ==
    IF p.owed # <<>>
    THEN [results |-> p.results \o p.owed, calls |-> p.calls \o p.owed, owed |-> <<>>]
    ELSE p

\* scraper.js 467: const key = result.placeId || result.name?.toLowerCase()
DedupKey(r) == IF Truthy(r.placeId) THEN r.placeId ELSE ToLowerCase(r.name)

MapKeys(m) == {m[k].key : k \in DOMAIN m}

\* FoldOne that sets the key whenever it is truthy: the last record wins
FoldOneOverwriting(m, r) ==
    IF ~Truthy(DedupKey(r)) THEN m
    ELSE IF DedupKey(r) \in MapKeys(m)
         THEN [k \in DOMAIN m |->
                  IF m[k].key = DedupKey(r) THEN [key |-> m[k].key, value |-> r]
                                            ELSE m[k]]
         ELSE Append(m, [key |-> DedupKey(r), value |-> r])

\* scraper.js 468-470: if (key && !allResults.has(key)) allResults.set(key, result)
FoldOne(m, r) ==
    IF Truthy(DedupKey(r)) /\ DedupKey(r) \notin MapKeys(m)
    THEN Append(m, [key |-> DedupKey(r), value |-> r])
    ELSE m

\* scraper.js 466-471: for (const result of results) ...
RECURSIVE FoldAll(_, _)
FoldAll(m, rs) ==
    IF rs = <<>> THEN m ELSE FoldAll(FoldOne(m, Head(rs)), Tail(rs))

\* scraper.js 484: [...allResults.values()]
RECURSIVE MapValues(_)
MapValues(m) ==
    IF m = <<>> THEN <<>> ELSE <<Head(m).value>> \o MapValues(Tail(m))


---------------------------------------------------------------------------
(* The engine's state machine.                                             *)

Links(n) == [k \in 1..n |-> k]

\* history: the references the workers ws have just taken
Taken(ws, u) == Cardinality({k \in DOMAIN ws : ws[k].url = u})

\* history: details d are a new, qualifying record (the claim's words); the
\* worker's qual holds it until an error is raised in the fetch
FreshAndQualifying(d, names) ==
    /\ d.name # NULL
    /\ ToLowerCase(d.name) \notin names
    /\ d.hasWebsite = FALSE
    /\ d.isActive = TRUE

\* history: details d qualify but their name was seen before: the lower-cased
\* name, kept by the worker until it takes its next reference
RepeatedQualifying(d, names) ==
    IF /\ d.name # NULL
       /\ ToLowerCase(d.name) \in names
       /\ d.hasWebsite = FALSE
       /\ d.isActive = TRUE
    THEN <<ToLowerCase(d.name)>>
    ELSE <<>>

\* scrollResults has not been called
ScrollIdle == [pc |-> "idle", selector |-> FALSE, maxScrolls |-> 0,
               previousHeight |-> 0, scrollCount |-> 0, noChangeCount |-> 0,
               samples |-> <<>>]

\* no output file, no onResult call yet
StoreIdle == [exists |-> FALSE, whole |-> TRUE, results |-> <<>>,
              appends |-> <<>>, foundResults |-> <<>>]

\* no function call, CLI run, direct launch/close or search is looked at
FnIdle == [pc |-> "idle"]
CliIdle == [pc |-> "idle"]
LifeIdle == [pc |-> "idle"]
SearchIdle == [pc |-> "idle"]
FetchIdle == [pc |-> "idle"]
SidesIdle ==
    /\ fn = FnIdle /\ cli = CliIdle /\ life = LifeIdle /\ search = SearchIdle
    /\ fetch = FetchIdle

\* a scraper as its constructor leaves it (scraper.js 22-30), with an entry
\* point called and standing at its first await
Constructed ==
    /\ mainPc = "launch"
    /\ pending = "none"
    /\ returned = <<>>
    /\ browser = "null"
    /\ context = "null"
    /\ i = 1
    /\ checkedNames = {}
    /\ allResults = <<>>
    /\ queue = [t \in Tasks |-> <<>>]
    /\ results = [t \in Tasks |-> <<>>]
    /\ processed = [t \in Tasks |-> 0]
    /\ total = [t \in Tasks |-> 0]
    /\ workers = [t \in Tasks |-> <<>>]
    /\ calls = [t \in Tasks |-> <<>>]
    /\ progress = <<>>
    /\ attempts = [t \in Tasks |-> [u \in 1..MaxLinks |-> 0]]
    /\ yielded = [t \in Tasks |-> <<>>]
    /\ taskLog = <<>>
    /\ folded = <<>>
    /\ linksUsed = 0
    /\ qualified = {}

\* scrape(query, location) or scrapeWithSubdivision(query, location,
\* subQueries) was called on a new scraper
Init ==
    /\ mode \in {"scrape", "sweep"}
    /\ nTasks \in 0..MaxTasks
    /\ mode = "scrape" => nTasks = 1
    /\ concurrency \in 1..MaxWorkers
    /\ Constructed
    /\ sc = ScrollIdle
    /\ store = StoreIdle
    /\ SidesIdle

\* the engine while scrollResults or the CLI's storage is looked at alone
EngineIdle ==
    /\ mode = "scrape"
    /\ nTasks = 1
    /\ concurrency = 1
    /\ Constructed

\* close() that leaves the session as it is
CloseSessionSkipped(b, c) == [browser |-> b, context |-> c]

\* close() that forgets to clear this.context
CloseSessionKeepsContext(b, c) == [browser |-> "null", context |-> c]

\* close() that clears the fields without closing the browser
CloseSessionKeepsBrowser(b, c) == [browser |-> b, context |-> "null"]

\* scraper.js 62-68: close() leaves both fields null when a browser exists
CloseSession(b, c) ==
    IF b # "null" THEN [browser |-> "null", context |-> "null"]
                  ELSE [browser |-> b, context |-> c]

\* A sweep without the per-task catch: the error leaves the loop
AfterTaskErrorFatal(m) == "close"

\* scraper.js 475-478: the sweep's catch reports the error and goes on to
\* the delay before the next task
AfterTaskError(m) == IF m = "sweep" THEN "delay" ELSE "close"

\* scraper.js 35-57, called at 418 and 449.  chromium.launch or newContext
\* may reject; the entry point's finally then runs close().
Launch ==
    /\ mainPc = "launch"
    /\ \E o \in {"ok", "noBrowser", "noContext"} :
         /\ browser' = IF o = "noBrowser" THEN "null" ELSE "open"
         /\ context' = IF o = "ok" THEN "open" ELSE "null"
         /\ IF o # "ok"
            THEN mainPc' = "close" /\ pending' = "throw"
            ELSE IF nTasks = 0
                 THEN mainPc' = "close" /\ pending' = "return"
                 ELSE mainPc' = "search" /\ pending' = pending
    /\ UNCHANGED <<mode, nTasks, concurrency, returned, i, checkedNames, allResults,
                   queue, results, processed, workers, calls, progress, attempts,
                   yielded, taskLog, folded, linksUsed, total, qualified, sc, store, sideVars>>

\* scraper.js 109-190 searchPlaces / 495-551 searchPlacesDirect rejecting: no
\* search box selector matches (147-149 and 524-526).  Any other rejection
\* of the search (the page cannot be opened or navigated) takes the same
\* path through the finally block and the caller.
SearchThrows ==
    /\ mainPc = "search"
    /\ taskLog' = Append(taskLog, [task |-> i, outcome |-> "searchBox"])
    /\ mainPc' = AfterTaskError(mode)
    /\ pending' = IF mode = "sweep" THEN pending ELSE "throw"
    /\ progress' = IF mode = "sweep" THEN Append(progress, i) ELSE progress
    /\ UNCHANGED <<mode, nTasks, concurrency, returned, browser, context, i,
                   checkedNames, allResults, queue, results, processed, workers,
                   calls, attempts, yielded, folded, linksUsed, total, qualified, sc, store, sideVars>>

\* The search resolves with n references; with n > 0 processPlaces is called
\* and its workers start (scraper.js 423-429, 459-463, 376-403).
SearchReturns ==
    /\ mainPc = "search"
    /\ \E n \in 0..(MaxLinks - linksUsed) :
         LET st == StartWorkers(Min(concurrency, n), Links(n)) IN
         /\ linksUsed' = linksUsed + n
         /\ queue' = [queue EXCEPT ![i] = st.queue]
         /\ total' = [total EXCEPT ![i] = n]
         /\ workers' = [workers EXCEPT ![i] = st.workers]
         /\ attempts' = [attempts EXCEPT ![i] =
                            [u \in 1..MaxLinks |-> @[u] + Taken(st.workers, u)]]
         /\ IF n > 0
            THEN /\ mainPc' = "pool"
                 /\ UNCHANGED <<pending, taskLog>>
            ELSE /\ mainPc' = IF mode = "sweep" THEN "delay" ELSE "close"
                 /\ pending' = IF mode = "sweep" THEN pending ELSE "return"
                 /\ taskLog' = Append(taskLog, [task |-> i, outcome |-> "empty"])
    /\ UNCHANGED <<mode, nTasks, concurrency, returned, browser, context, i,
                   checkedNames, allResults, results, processed, calls, progress,
                   yielded, folded, qualified, sc, store, sideVars>>

\* scraper.js 405: Promise.all rejects as soon as one worker has rejected;
\* the other workers of the call keep running.
PoolRejects ==
    /\ mainPc = "pool"
    /\ \E k \in DOMAIN workers[i] : workers[i][k].pc = "rejected"
    /\ mainPc' = AfterTaskError(mode)
    /\ pending' = IF mode = "sweep" THEN pending ELSE "throw"
    /\ progress' = IF mode = "sweep" THEN Append(progress, i) ELSE progress
    /\ taskLog' = Append(taskLog, [task |-> i, outcome |-> "rejected"])
    /\ UNCHANGED <<mode, nTasks, concurrency, returned, browser, context, i,
                   checkedNames, allResults, queue, results, processed, workers,
                   calls, attempts, yielded, folded, linksUsed, total, qualified, sc, store, sideVars>>

\* scraper.js 405-407: every worker has finished, processPlaces returns
\* results; 429-431 (scrape) returns them, 466-473 (sweep) folds them.
PoolResolves ==
    /\ mainPc = "pool"
    /\ \A k \in DOMAIN workers[i] : workers[i][k].pc = "done"
    /\ taskLog' = Append(taskLog, [task |-> i, outcome |-> "ok"])
    /\ folded' = folded \o results[i]
    /\ IF mode = "sweep"
       THEN /\ allResults' = FoldAll(allResults, results[i])
            /\ mainPc' = "delay"
            /\ UNCHANGED <<returned, pending>>
       ELSE /\ returned' = results[i]
            /\ pending' = "return"
            /\ mainPc' = "close"
            /\ UNCHANGED allResults
    /\ UNCHANGED <<mode, nTasks, concurrency, browser, context, i, checkedNames,
                   queue, results, processed, workers, calls, progress, attempts,
                   yielded, linksUsed, total, qualified, sc, store, sideVars>>

\* scraper.js 481 and 451: the delay ends, i++, and either the next task's
\* search starts or the loop ends and 484 returns the map's values.
NextTask ==
    /\ mainPc = "delay"
    /\ i' = i + 1
    /\ IF i + 1 <= nTasks
       THEN mainPc' = "search" /\ UNCHANGED <<returned, pending>>
       ELSE /\ mainPc' = "close"
            /\ pending' = "return"
            /\ returned' = MapValues(allResults)
    /\ UNCHANGED <<mode, nTasks, concurrency, browser, context, checkedNames,
                   allResults, queue, results, processed, workers, calls, progress,
                   attempts, yielded, taskLog, folded, linksUsed, total, qualified, sc, store, sideVars>>

\* scraper.js 432-434 and 485-487: finally { await this.close() }, then the
\* entry point's promise settles.
Finally ==
    /\ mainPc = "close"
    /\ browser' = CloseSession(browser, context).browser
    /\ context' = CloseSession(browser, context).context
    /\ mainPc' = IF pending = "return" THEN "returned" ELSE "threw"
    /\ UNCHANGED <<mode, nTasks, concurrency, pending, returned, i, checkedNames,
                   allResults, queue, results, processed, workers, calls, progress,
                   attempts, yielded, taskLog, folded, linksUsed, total, qualified, sc, store, sideVars>>

---------------------------------------------------------------------------
(* The workers of processPlaces call t; k is a worker of that call.        *)

SetWorker(t, k, w) == [workers EXCEPT ![t][k] = w]

\* scraper.js 248: await this.context.newPage() stands before the try
\* block.  Its rejection (always so once the context is null) is not caught:
\* getPlaceDetails and with it the worker's promise reject.
OpenThrows(t, k) ==
    /\ k \in DOMAIN workers[t]
    /\ workers[t][k].pc = "fetching"
    /\ workers' = SetWorker(t, k, Stopped(workers[t][k], "rejected"))
    /\ UNCHANGED <<mode, nTasks, concurrency, mainPc, pending, returned, browser,
                   context, i, checkedNames, allResults, queue, results, processed,
                   calls, progress, attempts, yielded, taskLog, folded, linksUsed, total, qualified, sc, store, sideVars>>

\* scraper.js 256-257: the page was opened, page.goto or the wait throws
\* (always so once the browser is closed); 284-286 catches it and the
\* function will return null.
FetchFails(t, k) ==
    /\ k \in DOMAIN workers[t]
    /\ workers[t][k].pc = "fetching"
    /\ workers' = SetWorker(t, k, [workers[t][k] EXCEPT
                       !.pc = "closing", !.ret = <<>>, !.qual = FALSE])
    /\ UNCHANGED <<mode, nTasks, concurrency, mainPc, pending, returned, browser,
                   context, i, checkedNames, allResults, queue, results, processed,
                   calls, progress, attempts, yielded, taskLog, folded, linksUsed, total, qualified, sc, store, sideVars>>

\* scraper.js 260-283: extractPlaceDetails returned; the dedup check, the
\* registration of the name and the gate run without an await between them.
\* A qualifying record without emails goes on to the secondary lookup (275).
Extracted(t, k) ==
    /\ k \in DOMAIN workers[t]
    /\ workers[t][k].pc = "fetching"
    /\ browser = "open"
    /\ context = "open"
    /\ \E d \in ExtractedDetails :
         LET w == [workers[t][k] EXCEPT
                      !.qual = FreshAndQualifying(d, checkedNames),
                      !.dup = RepeatedQualifying(d, checkedNames)]
         IN  IF AlreadyChecked(d, checkedNames)
             THEN /\ workers' = SetWorker(t, k, [w EXCEPT !.pc = "closing"])
                  /\ UNCHANGED <<checkedNames, qualified>>
             ELSE /\ checkedNames' = Register(d, checkedNames)
                  /\ qualified' = IF FreshAndQualifying(d, checkedNames)
                                  THEN qualified \cup {ToLowerCase(d.name)}
                                  ELSE qualified
                  /\ workers' = SetWorker(t, k,
                        IF Gate(d)
                        THEN IF NeedsLookup(d)
                             THEN [w EXCEPT !.pc = "lookup", !.held = <<d>>]
                             ELSE [w EXCEPT !.pc = "closing", !.ret = <<d>>]
                        ELSE [w EXCEPT !.pc = "closing"])
    /\ UNCHANGED <<mode, nTasks, concurrency, mainPc, pending, returned, browser,
                   context, i, allResults, queue, results, processed, calls,
                   progress, attempts, yielded, taskLog, folded, linksUsed, total, sc, store, sideVars>>

\* scraper.js 275-280 with 298-369: searchEmailForBusiness resolves with an
\* address or null (its own failures are caught at 363-366 and give null).
LookupReturns(t, k) ==
    /\ k \in DOMAIN workers[t]
    /\ workers[t][k].pc = "lookup"
    /\ context = "open"
    /\ \E found \in LookupResults :
         workers' = SetWorker(t, k, [workers[t][k] EXCEPT
             !.pc = "closing", !.held = <<>>,
             !.ret = <<WithFoundEmail(workers[t][k].held[1], found)>>])
    /\ UNCHANGED <<mode, nTasks, concurrency, mainPc, pending, returned, browser,
                   context, i, checkedNames, allResults, queue, results, processed,
                   calls, progress, attempts, yielded, taskLog, folded, linksUsed, total, qualified, sc, store, sideVars>>

\* scraper.js 299: the lookup's own newPage() stands before its try block, so
\* its rejection reaches getPlaceDetails' catch (284-286), which returns null.
LookupThrows(t, k) ==
    /\ k \in DOMAIN workers[t]
    /\ workers[t][k].pc = "lookup"
    /\ workers' = SetWorker(t, k, [workers[t][k] EXCEPT
             !.pc = "closing", !.held = <<>>, !.ret = <<>>, !.qual = FALSE])
    /\ UNCHANGED <<mode, nTasks, concurrency, mainPc, pending, returned, browser,
                   context, i, checkedNames, allResults, queue, results, processed,
                   calls, progress, attempts, yielded, taskLog, folded, linksUsed, total, qualified, sc, store, sideVars>>

\* scraper.js 287-289: page.close() in the finally block rejects; nothing
\* catches it, so getPlaceDetails and the worker's promise reject.
CloseThrows(t, k) ==
    /\ k \in DOMAIN workers[t]
    /\ workers[t][k].pc = "closing"
    /\ workers' = SetWorker(t, k, Stopped(workers[t][k], "rejected"))
    /\ UNCHANGED <<mode, nTasks, concurrency, mainPc, pending, returned, browser,
                   context, i, checkedNames, allResults, queue, results, processed,
                   calls, progress, attempts, yielded, taskLog, folded, linksUsed, total, qualified, sc, store, sideVars>>

\* scraper.js 288 then 388-397 and 384-386: page.close() resolves and
\* getPlaceDetails returns; the worker counts the item, reports a non-null
\* record, and either takes the next reference or ends.
Continue(t, k) ==
    /\ k \in DOMAIN workers[t]
    /\ workers[t][k].pc = "closing"
    /\ LET w == workers[t][k]
           p == Report([results |-> results[t], calls |-> calls[t], owed |-> w.ret])
       IN  /\ processed' = [processed EXCEPT ![t] = @ + 1]
           /\ yielded' = [yielded EXCEPT ![t] = @ \o w.ret]
           /\ results' = [results EXCEPT ![t] = p.results]
           /\ calls' = [calls EXCEPT ![t] = p.calls]
           /\ IF Len(queue[t]) > 0
              THEN LET s == Shift(queue[t]) IN
                   /\ queue' = [queue EXCEPT ![t] = s.rest]
                   /\ workers' = SetWorker(t, k, Fetching(s.url, p.owed # <<>>))
                   /\ attempts' = [attempts EXCEPT ![t][s.url] = @ + 1]
              ELSE /\ workers' = SetWorker(t, k, Stopped(w, "done"))
                   /\ UNCHANGED <<queue, attempts>>
    /\ UNCHANGED <<mode, nTasks, concurrency, mainPc, pending, returned, browser,
                   context, i, checkedNames, allResults, progress, taskLog, folded,
                   linksUsed, total, qualified, sc, store, sideVars>>

Worker(t, k) ==
    \/ OpenThrows(t, k)
    \/ FetchFails(t, k)
    \/ Extracted(t, k)
    \/ LookupReturns(t, k)
    \/ LookupThrows(t, k)
    \/ CloseThrows(t, k)
    \/ Continue(t, k)

Next ==
    \/ Launch
    \/ SearchThrows
    \/ SearchReturns
    \/ PoolRejects
    \/ PoolResolves
    \/ NextTask
    \/ Finally
    \/ \E t \in Tasks, k \in 1..MaxWorkers : Worker(t, k)

Spec == Init /\ [][Next]_vars

\* the event loop runs every continuation whose await has settled
FairSpec == Spec /\ WF_vars(Next)

---------------------------------------------------------------------------
(* Properties of the engine.                                               *)

Range(f) == {f[k] : k \in DOMAIN f}

\* the three conditions of the emission gate, on a record
Qualifies(r) == r.hasWebsite = FALSE /\ r.isActive = TRUE /\ r.name # NULL

\* placeId if present, else the lower-cased name
ClaimKey(r) == IF r.placeId # NULL THEN r.placeId ELSE ToLowerCase(r.name)

WorkerIds == {tk \in Tasks \X (1..MaxWorkers) : tk[2] \in DOMAIN workers[tk[1]]}
WorkerAt(tk) == workers[tk[1]][tk[2]]

\* the main function has left its try block by a return / has returned
Returning == mainPc \in {"close", "returned"} /\ pending = "return"

\* C1: every record getPlaceDetails returns, and every record pushed to
\* results or given to onResult, has hasWebsite = FALSE, isActive = TRUE and a
\* name; and a fetch that raised no error returns its record exactly when the
\* extracted details were new and satisfied the three conditions.
EmissionGate ==
    /\ \A t \in Tasks : \A r \in Range(results[t]) \cup Range(calls[t]) : Qualifies(r)
    /\ \A tk \in WorkerIds :
         /\ \A r \in Range(WorkerAt(tk).ret) \cup Range(WorkerAt(tk).held) : Qualifies(r)
         /\ WorkerAt(tk).pc = "lookup" => WorkerAt(tk).qual /\ WorkerAt(tk).held # <<>>
         /\ WorkerAt(tk).pc = "closing" => (WorkerAt(tk).ret # <<>> <=> WorkerAt(tk).qual)

\* a record was returned by one fetch while another fetch of the same call
\* returned null for a listing that did not qualify
EmissionGateWitness ==
    \E t \in Tasks :
        /\ calls[t] # <<>>
        /\ \E k \in DOMAIN workers[t] :
             /\ workers[t][k].pc = "closing"
             /\ workers[t][k].ret = <<>>
             /\ workers[t][k].dup = <<>>
             /\ ~workers[t][k].qual

\* a record with lower-cased name n was given to onResult, or a worker
\* still holds one that it will return
EmittedOrInFlight(n) ==
    \/ \E t \in Tasks : \E r \in Range(calls[t]) : ToLowerCase(r.name) = n
    \/ \E tk \in WorkerIds :
         \E r \in Range(WorkerAt(tk).ret) \cup Range(WorkerAt(tk).held) :
             ToLowerCase(r.name) = n

\* C2: no two records given to onResult have the same lower-cased name, and
\* when a second qualifying listing resolves to a name that a qualifying
\* listing registered, one record for that name is emitted (it was given to
\* onResult already or is on its way there).
NameDedupExactlyOne ==
    /\ \A t1, t2 \in Tasks :
         \A a \in DOMAIN calls[t1], b \in DOMAIN calls[t2] :
             (t1 # t2 \/ a # b) =>
                 ToLowerCase(calls[t1][a].name) # ToLowerCase(calls[t2][b].name)
    /\ \A tk \in WorkerIds :
         \A n \in Range(WorkerAt(tk).dup) :
             n \in qualified => EmittedOrInFlight(n)

\* C3: the sweep's map, and the collection it returns, never hold two
\* records with the same DedupKey; for every record folded so far the map
\* holds exactly one record with its key, the first one folded with that key.
FirstWithKey(rs, key) ==
    rs[CHOOSE a \in DOMAIN rs :
          /\ ClaimKey(rs[a]) = key
          /\ \A b \in DOMAIN rs : ClaimKey(rs[b]) = key => a <= b]

NoTwoSameKey(rs) ==
    \A a, b \in DOMAIN rs : a # b => ClaimKey(rs[a]) # ClaimKey(rs[b])

CrossTaskDedup ==
    mode = "sweep" =>
        /\ NoTwoSameKey(MapValues(allResults))
        /\ \A r \in Range(folded) :
             /\ Cardinality({k \in DOMAIN allResults :
                              ClaimKey(allResults[k].value) = ClaimKey(r)}) = 1
             /\ FirstWithKey(folded, ClaimKey(r)) \in Range(MapValues(allResults))
        /\ Returning =>
             /\ NoTwoSameKey(returned)
             /\ Range(returned) = {FirstWithKey(folded, ClaimKey(r)) : r \in Range(folded)}

\* two tasks produced different records with the same placeId, and the sweep
\* returned the first task's record
CrossTaskDedupWitness ==
    /\ mode = "sweep"
    /\ mainPc = "returned"
    /\ \E r1 \in Range(results[1]), r2 \in Range(results[2]) :
         /\ r1 # r2
         /\ r1.placeId # NULL
         /\ r1.placeId = r2.placeId
         /\ r1 \in Range(returned)
         /\ r2 \notin Range(returned)

\* processPlaces call t has returned: it was started and all its workers ended
Resolved(t) ==
    /\ workers[t] # <<>>
    /\ \A k \in DOMAIN workers[t] : workers[t][k].pc = "done"

StreamingOrder ==
    /\ \A t \in Tasks :
         /\ results[t] = calls[t]
         /\ calls[t] = yielded[t]
    /\ \A tk \in WorkerIds : ~WorkerAt(tk).lateShift
    /\ (mode = "scrape" /\ Returning) => returned = calls[1]

\* a worker reported a record and then took its next reference
StreamingOrderWitness ==
    \E t \in Tasks : \E k \in DOMAIN workers[t] :
        /\ Len(calls[t]) = 1
        /\ Len(workers[t]) = 1
        /\ workers[t][k].pc = "fetching"
        /\ workers[t][k].url = 2

\* C6: no exception of a fetch is propagated: no worker promise rejects, so
\* processPlaces never rejects.
FailureIsolation ==
    \A tk \in WorkerIds : WorkerAt(tk).pc # "rejected"

Failed(e) == e.outcome \in {"searchBox", "rejected"}

\* the tasks of the log with a given kind of outcome, in order
RECURSIVE TasksWhere(_, _)
TasksWhere(log, failed) ==
    IF log = <<>> THEN <<>>
    ELSE (IF Failed(Head(log)) = failed THEN <<Head(log).task>> ELSE <<>>)
         \o TasksWhere(Tail(log), failed)

OkRecords == UNION {Range(results[t]) : t \in Range(TasksWhere(taskLog, FALSE))}

\* C7: in a sweep a task's error never leaves the loop; every failed task is
\* reported through onProgress; the tasks are attempted in order, each once,
\* and all of them before the sweep returns; the returned collection is made
\* of the records of the tasks that succeeded, one for each of their keys.
SweepPartialFailure ==
    mode = "sweep" =>
        /\ \A j \in DOMAIN taskLog : taskLog[j].task = j
        /\ progress = TasksWhere(taskLog, TRUE)
        /\ mainPc = "threw" => taskLog = <<>>
        /\ (pending = "throw") => taskLog = <<>>
        /\ Returning =>
             /\ Len(taskLog) = nTasks
             /\ Range(returned) \subseteq OkRecords
             /\ {ClaimKey(r) : r \in Range(returned)} = {ClaimKey(r) : r \in OkRecords}

\* the sweep returned records after a task failed and a later task succeeded
SweepPartialFailureWitness ==
    /\ mode = "sweep"
    /\ mainPc = "returned"
    /\ returned # <<>>
    /\ \E j \in DOMAIN taskLog : \E l \in DOMAIN taskLog :
         j < l /\ Failed(taskLog[j]) /\ taskLog[l].outcome = "ok"

\* C8: in scrape, once the search failed for want of a search box, the call
\* never returns a value, processPlaces is never started and no reference is
\* fetched, and when the caller gets the error the session is closed.
ScrapeSearchFailureFatal ==
    (mode = "scrape" /\ taskLog # <<>> /\ taskLog[1].outcome = "searchBox") =>
        /\ mainPc \in {"close", "threw"}
        /\ pending = "throw"
        /\ workers[1] = <<>>
        /\ \A u \in 1..MaxLinks : attempts[1][u] = 0
        /\ mainPc = "threw" => (browser = "null" /\ context = "null")

\* the error of a failed search reached the caller of scrape
ScrapeSearchFailureWitness ==
    /\ mode = "scrape"
    /\ mainPc = "threw"
    /\ taskLog # <<>>
    /\ taskLog[1].outcome = "searchBox"

---------------------------------------------------------------------------
(* scrollResults (scraper.js 195-240).  sc holds its locals; samples is    *)
(* the history of the heights page.evaluate returned.                      *)

\* noChangeCount that is not reset when the height changes
NoChangeUpdateNoReset(count, currentHeight, previousHeight) ==
    IF currentHeight = previousHeight THEN count + 1 ELSE count

\* scraper.js 231-235
NoChangeUpdate(count, currentHeight, previousHeight) ==
    IF currentHeight = previousHeight THEN count + 1 ELSE 0

\* a while condition that gives up after two unchanged samples
LoopConditionStopsAtTwo(scrollCount, maxScrolls, noChangeCount) ==
    scrollCount < maxScrolls /\ noChangeCount < 2

\* scraper.js 218: the while condition
LoopCondition(scrollCount, maxScrolls, noChangeCount) ==
    scrollCount < maxScrolls /\ noChangeCount < 3

\* where the function stands after testing the while condition
AfterTest(l) ==
    IF LoopCondition(l.scrollCount, l.maxScrolls, l.noChangeCount)
    THEN [l EXCEPT !.pc = "loop"]
    ELSE [l EXCEPT !.pc = "returned"]

\* scrollResults is called: maxScrolls is its parameter, selector tells
\* whether this.activeResultsSelector is set or a container selector matches
\* (scraper.js 201-210).
ScrollInit ==
    /\ EngineIdle
    /\ store = StoreIdle
    /\ SidesIdle
    /\ \E m \in 0..MaxScrolls, found \in BOOLEAN :
         sc = [ScrollIdle EXCEPT !.pc = "start", !.maxScrolls = m, !.selector = found]

\* scraper.js 212-218: return without a selector, else enter the loop
ScrollStart ==
    /\ sc.pc = "start"
    /\ sc' = IF sc.selector THEN AfterTest(sc) ELSE [sc EXCEPT !.pc = "returned"]
    /\ UNCHANGED <<engineVars, store, sideVars>>

\* scraper.js 220-238: one iteration: the container is scrolled, its height
\* sampled (0 when the element is gone), the settle wait passes, the counters
\* are updated and the while condition is tested again.
ScrollSample ==
    /\ sc.pc = "loop"
    /\ \E currentHeight \in 0..MaxHeight :
         sc' = AfterTest([sc EXCEPT
                  !.noChangeCount =
                      NoChangeUpdate(@, currentHeight, sc.previousHeight),
                  !.previousHeight = currentHeight,
                  !.scrollCount = @ + 1,
                  !.samples = Append(@, currentHeight)])
    /\ UNCHANGED <<engineVars, store, sideVars>>

\* scraper.js 220 and 229: page.evaluate or the wait rejects; scrollResults
\* has no try block, so it rejects
ScrollThrows ==
    /\ sc.pc = "loop"
    /\ sc' = [sc EXCEPT !.pc = "threw"]
    /\ UNCHANGED <<engineVars, store, sideVars>>

ScrollNext ==
    \/ ScrollStart
    \/ ScrollSample
    \/ ScrollThrows

ScrollSpec == ScrollInit /\ [][ScrollNext]_vars

\* the event loop runs a continuation once its await has settled
ScrollFairSpec == ScrollSpec /\ WF_vars(ScrollNext)

\* the height the j-th sample is compared with
Preceding(samples, j) == IF j = 1 THEN 0 ELSE samples[j - 1]

\* the number of samples at the end of the history that showed no increase
\* over the sample before them
RECURSIVE NoIncreaseRun(_)
NoIncreaseRun(samples) ==
    IF samples = <<>> THEN 0
    ELSE IF samples[Len(samples)] > Preceding(samples, Len(samples)) THEN 0
    ELSE 1 + NoIncreaseRun(SubSeq(samples, 1, Len(samples) - 1))

\* the number of samples at the end of the history equal to the sample
\* before them
RECURSIVE NoChangeRun(_)
NoChangeRun(samples) ==
    IF samples = <<>> THEN 0
    ELSE IF samples[Len(samples)] # Preceding(samples, Len(samples)) THEN 0
    ELSE 1 + NoChangeRun(SubSeq(samples, 1, Len(samples) - 1))

ScrollStopped == sc.pc \in {"returned", "threw"}

ScrollStopRule ==
    /\ sc.scrollCount = Len(sc.samples)
    /\ sc.scrollCount <= sc.maxScrolls
    /\ sc.noChangeCount = NoChangeRun(sc.samples)
    /\ (sc.pc = "returned" /\ sc.selector) =>
           (NoChangeRun(sc.samples) = 3 \/ Len(sc.samples) = sc.maxScrolls)
    /\ sc.pc = "loop" =>
           (NoChangeRun(sc.samples) < 3 /\ Len(sc.samples) < sc.maxScrolls)
    /\ ~sc.selector => (sc.pc \in {"start", "returned"} /\ sc.samples = <<>>)

HeightBefore(h0, samples, j) == IF j = 1 THEN h0 ELSE samples[j - 1]

\* the samples are those of a surface of initial height h0 that grows on
\* each of the first k scrolls and never afterwards
GrowsThenNever(h0, k, samples) ==
    \A j \in DOMAIN samples :
        IF j <= k THEN samples[j] > HeightBefore(h0, samples, j)
        ELSE samples[j] <= HeightBefore(h0, samples, j)

\* the samples are those of a surface of initial height h0 that grows on
\* each of the first k scrolls and keeps its height afterwards
GrowsThenStill(h0, k, samples) ==
    \A j \in DOMAIN samples :
        IF j <= k THEN samples[j] > HeightBefore(h0, samples, j)
        ELSE samples[j] = HeightBefore(h0, samples, j)

\* the position of the last sample that differs from the height it is
\* compared with, 0 when there is none
RECURSIVE LastChange(_)
LastChange(samples) ==
    IF samples = <<>> THEN 0
    ELSE IF samples[Len(samples)] # Preceding(samples, Len(samples))
         THEN Len(samples)
         ELSE LastChange(SubSeq(samples, 1, Len(samples) - 1))

ScrollReturned == sc.pc = "returned" /\ sc.selector

\* C21 as stated: for every k with k + 3 below the ceiling, on a surface
\* whose height grows on each of the first k scrolls and never afterwards,
\* scrollResults has made at least k and at most k + 3 attempts when it
\* returns.
ScrollAttemptsWithinKPlus3 ==
    ScrollReturned =>
        \A h0 \in 0..MaxHeight, k \in 0..MaxScrolls :
            (GrowsThenNever(h0, k, sc.samples) /\ k + 3 < sc.maxScrolls) =>
                (Len(sc.samples) >= k /\ Len(sc.samples) <= k + 3)

ScrollAttemptsRule ==
    /\ (ScrollReturned /\ Len(sc.samples) < sc.maxScrolls) =>
           Len(sc.samples) = LastChange(sc.samples) + 3
    /\ ScrollReturned =>
           \A h0 \in 0..MaxHeight, k \in 0..MaxScrolls :
               (GrowsThenStill(h0, k, sc.samples) /\ k + 3 < sc.maxScrolls) =>
                   /\ Len(sc.samples) >= k
                   /\ Len(sc.samples) <= k + 4
                   /\ (k >= 1 \/ h0 = 0) => Len(sc.samples) = k + 3
                   /\ (k = 0 /\ h0 > 0) => Len(sc.samples) = 4

\* C21, amended: scrollResults stops, and below the ceiling it returns three
\* attempts after the last sample that differed from the height it was
\* compared with (the first sample is compared with 0, and a smaller sample
\* counts as a change).  On a surface whose height grows on each of the
\* first k scrolls and stays the same afterwards (k + 3 below the ceiling)
\* it makes at least k and at most k + 4 attempts: exactly k + 3 when k >= 1
\* or the surface starts at height 0, and exactly 4 when k = 0 and the
\* surface starts at a height above 0.
ScrollAttemptsBound == []ScrollAttemptsRule /\ <>ScrollStopped

\* a surface that never grows and starts above height 0 took four attempts
ScrollAttemptsBoundWitness ==
    /\ ScrollReturned
    /\ Len(sc.samples) = 4
    /\ sc.maxScrolls > 4
    /\ \E h0 \in 1..MaxHeight : GrowsThenStill(h0, 0, sc.samples)

---------------------------------------------------------------------------
(* The CLI's onResult handler (cli.js 69-84) and storage.appendResult      *)
(* (storage.js 123-142) on the output file.  store.exists, store.whole and *)
(* store.results are the file: whether it exists, whether its text is      *)
(* complete JSON, and the results array of that JSON.  A streamed record   *)
(* is named by its position in foundResults.  Each appendResult call in    *)
(* flight has a pc, its result and the data it is about to write.          *)

StoreInit ==
    /\ EngineIdle
    /\ sc = ScrollIdle
    /\ \E e \in BOOLEAN : store = [StoreIdle EXCEPT !.exists = e]
    /\ SidesIdle

SetAppend(a, x) == [store EXCEPT !.appends[a] = x]

\* cli.js 69-73: the scraper calls onResult, which pushes the record and calls
\* appendResult; that runs to loadExisting's first await (storage.js 30, 16).
\* The scraper does not await the handler.
OnResult ==
    /\ Len(store.foundResults) < MaxStreamed
    /\ LET r == Len(store.foundResults) + 1 IN
       store' = [store EXCEPT
                    !.foundResults = Append(@, r),
                    !.appends = Append(@, [pc |-> "access", result |-> r, data |-> <<>>])]
    /\ UNCHANGED <<engineVars, sc, sideVars>>

\* storage.js 14-21 and 30-33: access settles.  Without a file loadExisting
\* returns null and appendResult goes to write a new object with the one
\* result (135-136); with a file readFile is started.
Accessed(a) ==
    /\ a \in DOMAIN store.appends
    /\ store.appends[a].pc = "access"
    /\ store' = SetAppend(a,
           IF store.exists
           THEN [store.appends[a] EXCEPT !.pc = "read"]
           ELSE [store.appends[a] EXCEPT !.pc = "write",
                                         !.data = <<store.appends[a].result>>])
    /\ UNCHANGED <<engineVars, sc, sideVars>>

\* storage.js 33-38 and 127-136: readFile settles.  Complete JSON is parsed,
\* the result pushed and the object goes to be written; text that a write in
\* progress has truncated makes JSON.parse throw, loadExisting returns null
\* and a new object with the one result goes to be written.
ReadDone(a) ==
    /\ a \in DOMAIN store.appends
    /\ store.appends[a].pc = "read"
    /\ store' = SetAppend(a, [store.appends[a] EXCEPT
           !.pc = "write",
           !.data = IF store.whole
                    THEN Append(store.results, store.appends[a].result)
                    ELSE <<store.appends[a].result>>])
    /\ UNCHANGED <<engineVars, sc, sideVars>>

\* storage.js 50: writeFile opens the file, which truncates it
WriteBegins(a) ==
    /\ a \in DOMAIN store.appends
    /\ store.appends[a].pc = "write"
    /\ store' = [SetAppend(a, [store.appends[a] EXCEPT !.pc = "writing"]) EXCEPT
                    !.exists = TRUE, !.whole = FALSE, !.results = <<>>]
    /\ UNCHANGED <<engineVars, sc, sideVars>>

\* storage.js 50-51: writeFile has written the text and settles
WriteEnds(a) ==
    /\ a \in DOMAIN store.appends
    /\ store.appends[a].pc = "writing"
    /\ store' = [SetAppend(a, [store.appends[a] EXCEPT !.pc = "done"]) EXCEPT
                    !.whole = TRUE, !.results = store.appends[a].data]
    /\ UNCHANGED <<engineVars, sc, sideVars>>

StoreNext ==
    \/ OnResult
    \/ \E a \in 1..MaxStreamed :
         \/ Accessed(a)
         \/ ReadDone(a)
         \/ WriteBegins(a)
         \/ WriteEnds(a)

StoreSpec == StoreInit /\ [][StoreNext]_vars

\* every appendResult call made so far has completed
AppendsCompleted ==
    \A a \in DOMAIN store.appends : store.appends[a].pc = "done"

\* C10: once all appendResult calls have completed, the output file holds
\* every record that was streamed to onResult.
StreamedRecordsKept ==
    AppendsCompleted =>
        \A r \in Range(store.foundResults) : r \in Range(store.results)

---------------------------------------------------------------------------
(* storage.mergeResults (storage.js 64-96) as a function, and the runs of  *)
(* the CLI (cli.js 57-113) on one output file.  A stored record is the     *)
(* pair of fields the storage reads: placeId and name.  What loadExisting  *)
(* returns is [present, results]: null when present is FALSE.              *)

Rec(p, n) == [placeId |-> p, name |-> n]

\* the records the scraper can produce for the storage
StoredRecords ==
    { Rec(PlaceOne, CafeA), Rec(NULL, CafeA), Rec(NULL, CafeAUpper),
      Rec(PlaceOne, BarB), Rec(PlaceTwo, BarB) }

\* arrays of at most n stored records
RECURSIVE ArraysUpTo(_)
ArraysUpTo(n) ==
    IF n = 0 THEN {<<>>}
    ELSE LET shorter == ArraysUpTo(n - 1) IN
         shorter \cup {Append(a, r) : a \in {x \in shorter : Len(x) = n - 1},
                                      r \in StoredRecords}

NoFile == [present |-> FALSE, results |-> <<>>]
FileWith(rs) == [present |-> TRUE, results |-> rs]

\* storage.js 84-92: newResults.filter(item => ...)
RECURSIVE UniqueNew(_, _, _)
UniqueNew(newResults, existingIds, existingNames) ==
    IF newResults = <<>> THEN <<>>
    ELSE LET item == Head(newResults)
             keep == IF Truthy(item.placeId) THEN item.placeId \notin existingIds
                     ELSE IF Truthy(item.name)
                          THEN ToLowerCase(item.name) \notin existingNames
                          ELSE TRUE
         IN (IF keep THEN <<item>> ELSE <<>>)
            \o UniqueNew(Tail(newResults), existingIds, existingNames)

\* the merge that keeps a new record only when no record before it, existing
\* or new, has its DedupKey
RECURSIVE MergeResultsDedupNew(_, _)
MergeResultsDedupNew(existing, newResults) ==
    IF newResults = <<>> THEN existing.results
    ELSE LET sofar == MergeResultsDedupNew(existing,
                                           SubSeq(newResults, 1, Len(newResults) - 1))
             item == newResults[Len(newResults)]
         IN IF \E k \in DOMAIN sofar : DedupKey(sofar[k]) = DedupKey(item)
            THEN sofar ELSE Append(sofar, item)

\* storage.js 64-96
MergeResults(existing, newResults) ==
    IF ~existing.present
    THEN newResults
    ELSE LET withId == {existing.results[k] : k \in
                           {j \in DOMAIN existing.results :
                               Truthy(existing.results[j].placeId)}}
             byName == {existing.results[k] : k \in
                           {j \in DOMAIN existing.results :
                               /\ ~Truthy(existing.results[j].placeId)
                               /\ Truthy(existing.results[j].name)}}
             existingIds == {r.placeId : r \in withId}
             existingNames == {ToLowerCase(r.name) : r \in byName}
         IN existing.results \o UniqueNew(newResults, existingIds, existingNames)

\* mergeResults is about to be called with some existing object and array
MergeInit ==
    /\ EngineIdle
    /\ sc = ScrollIdle
    /\ store = StoreIdle
    /\ cli = CliIdle /\ life = LifeIdle /\ search = SearchIdle /\ fetch = FetchIdle
    /\ \E ex \in {NoFile} \cup {FileWith(rs) : rs \in ArraysUpTo(MaxMerge)},
          nw \in ArraysUpTo(MaxMerge) :
         fn = [pc |-> "mergeResults", existing |-> ex, newResults |-> nw, out |-> <<>>]

MergeCall ==
    /\ fn.pc = "mergeResults"
    /\ fn' = [fn EXCEPT !.pc = "merged",
                        !.out = MergeResults(fn.existing, fn.newResults)]
    /\ UNCHANGED <<engineVars, sc, store, cli, life, search, fetch>>

MergeNext == MergeCall

MergeSpec == MergeInit /\ [][MergeNext]_vars

\* C12: the array mergeResults returns has no two records with the same
\* DedupKey, starts with the existing records, and after them keeps a new
\* record exactly when no existing record and no earlier new record has its
\* DedupKey.
MergeDeduplicated ==
    fn.pc = "merged" =>
        /\ NoTwoSameKey(fn.out)
        /\ fn.out = MergeResultsDedupNew(fn.existing, fn.newResults)

---------------------------------------------------------------------------
(* Runs of the CLI on one output file (cli.js 57-113).  cli.file is the    *)
(* file; cli.foundResults the records the current run streamed.  The       *)
(* appends of a run are taken one after the other here; their              *)
(* interleavings are StoreSpec's subject.                                  *)

\* storage.js 123-137: appendResult with nothing else touching the file
AppendResult(file, result) ==
    IF file.present THEN FileWith(Append(file.results, result))
                    ELSE FileWith(<<result>>)

\* the lower-cased names a run has streamed: checkedNames lets one record
\* per name through (scraper.js 263-269)
StreamedNames(rs) == {ToLowerCase(rs[k].name) : k \in DOMAIN rs}

CliInit ==
    /\ EngineIdle
    /\ sc = ScrollIdle
    /\ store = StoreIdle
    /\ fn = FnIdle /\ life = LifeIdle /\ search = SearchIdle /\ fetch = FetchIdle
    /\ cli = [pc |-> "scraping", run |-> 1, file |-> NoFile, foundResults |-> <<>>]

\* cli.js 69-73: the scraper streams a record of a name it has not streamed
\* in this run; onResult pushes it and appendResult stores it
CliOnResult ==
    /\ cli.pc = "scraping"
    /\ Len(cli.foundResults) < MaxPerRun
    /\ \E r \in StoredRecords :
         /\ ToLowerCase(r.name) \notin StreamedNames(cli.foundResults)
         /\ cli' = [cli EXCEPT !.foundResults = Append(@, r),
                               !.file = AppendResult(@, r)]
    /\ UNCHANGED <<engineVars, sc, store, fn, life, search, fetch>>

\* cli.js 93-113: the scraper returns its results; with none the run ends
\* (100-103), else the file is loaded, merged with the results and saved
CliFinish ==
    /\ cli.pc = "scraping"
    /\ cli' = [cli EXCEPT
                  !.pc = "exited",
                  !.file = IF cli.foundResults = <<>> THEN @
                           ELSE FileWith(MergeResults(@, cli.foundResults))]
    /\ UNCHANGED <<engineVars, sc, store, fn, life, search, fetch>>

\* the CLI is started again with the same --output: a new scraper, a new
\* foundResults (cli.js 61-63)
CliRunAgain ==
    /\ cli.pc = "exited"
    /\ cli.run < MaxRuns
    /\ cli' = [cli EXCEPT !.pc = "scraping", !.run = @ + 1, !.foundResults = <<>>]
    /\ UNCHANGED <<engineVars, sc, store, fn, life, search, fetch>>

CliNext ==
    \/ CliOnResult
    \/ CliFinish
    \/ CliRunAgain

CliSpec == CliInit /\ [][CliNext]_vars

\* C11: whatever runs were made on the output file, its results array holds
\* no two records with the same DedupKey.
FileDeduplicated ==
    NoTwoSameKey(cli.file.results)

---------------------------------------------------------------------------
(* The extractor's text functions (extractor.js 31-87) and the closed      *)
(* check of extractPlaceDetails (extractor.js 123-140), on texts that are  *)
(* sequences of characters.  A regular expression of the source is a       *)
(* sequence of pieces, each a character class with a least and a greatest  *)
(* number of repetitions; all quantifiers of the source are greedy.        *)

LowerLetters == {"a", "b", "c", "d", "e", "f", "g", "h", "i", "j", "k", "l", "m", "n", "o", "p", "q", "r", "s", "t", "u", "v", "w", "x", "y", "z"}
UpperLetters == {"A", "B", "C", "D", "E", "F", "G", "H", "I", "J", "K", "L", "M", "N", "O", "P", "Q", "R", "S", "T", "U", "V", "W", "X", "Y", "Z"}
Digits == {"0", "1", "2", "3", "4", "5", "6", "7", "8", "9"}
\* \s
Whitespace == {" ", "\t", "\n"}
\* [-.\s]
Separators == {"-", "."} \cup Whitespace

Piece(cs, lo, hi) == [chars |-> cs, min |-> lo, max |-> hi]

\* extractor.js 31-35 PHONE_PATTERNS; n stands for an unbounded repetition
\* on a text of n characters
PhonePatterns(n) ==
    << << Piece({"+"}, 0, 1), Piece(Digits, 1, 4), Piece(Separators, 0, 1),
          Piece({"("}, 0, 1), Piece(Digits, 1, 4), Piece({")"}, 0, 1),
          Piece(Separators, 0, 1), Piece(Digits, 1, 4), Piece(Separators, 0, 1),
          Piece(Digits, 1, 9) >>,
       << Piece({"("}, 1, 1), Piece(Digits, 3, 3), Piece({")"}, 1, 1),
          Piece(Whitespace, 0, n), Piece(Digits, 3, 3), Piece(Separators, 0, 1),
          Piece(Digits, 4, 4) >>,
       << Piece(Digits, 3, 3), Piece(Separators, 1, 1), Piece(Digits, 3, 3),
          Piece(Separators, 1, 1), Piece(Digits, 4, 4) >> >>

\* extractor.js 38 EMAIL_PATTERN
EmailPattern(n) ==
    << Piece(LowerLetters \cup UpperLetters \cup Digits \cup {".", "_", "%", "+", "-"}, 1, n),
       Piece({"@"}, 1, 1),
       Piece(LowerLetters \cup UpperLetters \cup Digits \cup {".", "-"}, 1, n),
       Piece({"."}, 1, 1),
       Piece(LowerLetters \cup UpperLetters, 2, n) >>

\* how many characters of the class stand at pos, pos + 1, ..., at most hi
RECURSIVE RunLength(_, _, _, _)
RunLength(cs, text, pos, hi) ==
    IF hi = 0 \/ pos > Len(text) \/ text[pos] \notin cs THEN 0
    ELSE 1 + RunLength(cs, text, pos + 1, hi - 1)

\* The backtracking match of the pieces ps at position pos: the position
\* after the match the engine finds first (longest repetitions first), or 0
\* when there is none.
RECURSIVE MatchFrom(_, _, _)
RECURSIVE TryCount(_, _, _, _)
MatchFrom(ps, text, pos) ==
    IF ps = <<>> THEN pos
    ELSE TryCount(ps, text, pos, RunLength(Head(ps).chars, text, pos, Head(ps).max))

TryCount(ps, text, pos, k) ==
    IF k < Head(ps).min THEN 0
    ELSE LET e == MatchFrom(Tail(ps), text, pos + k) IN
         IF e # 0 THEN e
         ELSE IF k = 0 THEN 0 ELSE TryCount(ps, text, pos, k - 1)

\* String.prototype.match with a global pattern: the matches from left to
\* right, each search starting where the last match ended
RECURSIVE AllMatches(_, _, _)
AllMatches(ps, text, start) ==
    IF start > Len(text) THEN <<>>
    ELSE LET e == MatchFrom(ps, text, start) IN
         IF e = 0 THEN AllMatches(ps, text, start + 1)
         ELSE <<SubSeq(text, start, e - 1)>> \o AllMatches(ps, text, e)

\* String.prototype.trim
RECURSIVE TrimStart(_)
TrimStart(x) ==
    IF x # <<>> /\ Head(x) \in Whitespace THEN TrimStart(Tail(x)) ELSE x

RECURSIVE TrimEnd(_)
TrimEnd(x) ==
    IF x # <<>> /\ x[Len(x)] \in Whitespace THEN TrimEnd(SubSeq(x, 1, Len(x) - 1)) ELSE x

Trim(x) == TrimEnd(TrimStart(x))

\* phone.replace(/\D/g, '')
RECURSIVE StripNonDigits(_)
StripNonDigits(x) ==
    IF x = <<>> THEN <<>>
    ELSE (IF Head(x) \in Digits THEN <<Head(x)>> ELSE <<>>) \o StripNonDigits(Tail(x))

\* a validation that accepts four digits
EnoughDigitsFour(digits) == Len(digits) >= 4

\* extractor.js 55
EnoughDigits(digits) == Len(digits) >= 7

\* extractor.js 48-58: the loop over the patterns, from pattern j on
RECURSIVE PhoneFromPattern(_, _)
PhoneFromPattern(text, j) ==
    IF j > Len(PhonePatterns(Len(text))) THEN NULL
    ELSE LET matches == AllMatches(PhonePatterns(Len(text))[j], text, 1) IN
         IF matches # <<>> /\ EnoughDigits(StripNonDigits(Trim(matches[1])))
         THEN Trim(matches[1])
         ELSE PhoneFromPattern(text, j + 1)

\* extractor.js 45-61
ExtractPhone(text) == IF text = <<>> THEN NULL ELSE PhoneFromPattern(text, 1)

\* String.prototype.includes
Includes(x, sub) ==
    \E k \in 1..(Len(x) + 1) :
        k + Len(sub) - 1 <= Len(x) /\ SubSeq(x, k, k + Len(sub) - 1) = sub

\* extractor.js 78-81
NoiseDomains ==
    { <<"e", "x", "a", "m", "p", "l", "e", ".", "c", "o", "m">>,
      <<"g", "o", "o", "g", "l", "e", ".", "c", "o", "m">>,
      <<"g", "s", "t", "a", "t", "i", "c", ".", "c", "o", "m">>,
      <<"g", "o", "o", "g", "l", "e", "a", "p", "i", "s", ".", "c", "o", "m">> }

\* extractor.js 75-83: matches.filter(...)
RECURSIVE FilterNoise(_)
FilterNoise(matches) ==
    IF matches = <<>> THEN <<>>
    ELSE (IF \E d \in NoiseDomains : Includes(ToLowerCase(Head(matches)), d)
          THEN <<>> ELSE <<Head(matches)>>)
         \o FilterNoise(Tail(matches))

\* a spread that keeps every entry
KeepDuplicates(x) == x

\* extractor.js 86: [...new Set(filtered)] keeps the first of equal entries
RECURSIVE Distinct(_)
Distinct(x) ==
    IF x = <<>> THEN <<>>
    ELSE LET before == Distinct(SubSeq(x, 1, Len(x) - 1)) IN
         IF \E k \in DOMAIN before : before[k] = x[Len(x)]
         THEN before ELSE Append(before, x[Len(x)])

\* extractor.js 68-87
ExtractEmails(text) ==
    IF text = <<>> THEN <<>>
    ELSE Distinct(FilterNoise(AllMatches(EmailPattern(Len(text)), text, 1)))

\* extractor.js 125-133
ClosedIndicators ==
    { <<"p", "e", "r", "m", "a", "n", "e", "n", "t", "l", "y", " ", "c", "l", "o", "s", "e", "d">>,
      <<"c", "e", "r", "r", "a", "d", "o", " ", "p", "e", "r", "m", "a", "n", "e", "n", "t", "e", "m", "e", "n", "t", "e">>,
      <<"t", "e", "m", "p", "o", "r", "a", "r", "i", "l", "y", " ", "c", "l", "o", "s", "e", "d">>,
      <<"c", "e", "r", "r", "a", "d", "o", " ", "t", "e", "m", "p", "o", "r", "a", "l", "m", "e", "n", "t", "e">>,
      <<"b", "u", "s", "i", "n", "e", "s", "s", " ", "h", "a", "s", " ", "c", "l", "o", "s", "e", "d">>,
      <<"n", "o", " ", "l", "o", "n", "g", "e", "r", " ", "i", "n", " ", "b", "u", "s", "i", "n", "e", "s", "s">>,
      <<"t", "h", "i", "s", " ", "p", "l", "a", "c", "e", " ", "i", "s", " ", "c", "l", "o", "s", "e", "d">> }

\* extractor.js 134-140: the closed check on the page text
IsClosed(pageText) ==
    \E indicator \in ClosedIndicators : Includes(ToLowerCase(pageText), indicator)

---------------------------------------------------------------------------
(* The extractor called on a page.  fn holds the text the page shows, the  *)
(* function that was called and what it returned.                          *)

\* pieces of text a detail page can show
Fragments ==
    { <<"P", "e", "r", "m", "a", "n", "e", "n", "t", "l", "y", " ", "C", "l", "o", "s", "e", "d">>,
      <<"c", "e", "r", "r", "a", "d", "o", " ", "t", "e", "m", "p", "o", "r", "a", "l", "m", "e", "n", "t", "e", ".", " ">>,
      <<"O", "p", "e", "n", " ", "n", "o", "w", " ">>,
      <<"c", "l", "o", "s", "e", "d", " ">>,
      <<"a", "@", "b", ".", "c", "o", " ">>,
      <<"X", "@", "E", "x", "a", "m", "p", "l", "e", ".", "C", "O", "M", " ">>,
      <<"i", "@", "m", "a", "p", "s", ".", "g", "o", "o", "g", "l", "e", ".", "c", "o", "m", " ">>,
      <<"5", "5", "5", "-", "5", "5", "5", "-", "5", "5", "5", "5">>,
      <<"1", "-", "2", "-", "3", "-", "4", " ">>,
      <<"(", "5", "5", "5", ")", " ", "5", "5", "5", "-", "5", "5", "5", "5">>,
      <<"+", "3", "4", " ", "9", "1", "2", " ", "3", "4", "5", " ", "6", "7", "8">>,
      <<" ">> }

\* the texts made of at most n fragments
RECURSIVE TextsUpTo(_)
TextsUpTo(n) ==
    IF n = 0 THEN {<<>>}
    ELSE TextsUpTo(n - 1) \cup {t \o f : t \in TextsUpTo(n - 1), f \in Fragments}

\* a page with the given h1 and website element whose body text is text
PageShowing(h1, website, text) ==
    [h1 |-> h1, place |-> PlaceOne, closed |-> IsClosed(text),
     website |-> website, mails |-> ExtractEmails(text)]

ExtractorInit ==
    /\ EngineIdle
    /\ sc = ScrollIdle
    /\ store = StoreIdle
    /\ cli = CliIdle /\ life = LifeIdle /\ search = SearchIdle /\ fetch = FetchIdle
    /\ \E text \in TextsUpTo(MaxFragments) :
         fn = [pc |-> "input", text |-> text, failAt |-> "none",
               out |-> <<>>, returned |-> FALSE]

\* extractor.js 45-61 called on the text
ExtractPhoneCall ==
    /\ fn.pc = "input"
    /\ fn' = [fn EXCEPT !.pc = "extractPhone", !.out = ExtractPhone(fn.text)]
    /\ UNCHANGED <<engineVars, sc, store, cli, life, search, fetch>>

\* extractor.js 68-87 called on the text
ExtractEmailsCall ==
    /\ fn.pc = "input"
    /\ fn' = [fn EXCEPT !.pc = "extractEmails", !.out = ExtractEmails(fn.text)]
    /\ UNCHANGED <<engineVars, sc, store, cli, life, search, fetch>>

\* scraper.js 260-283 on a new scraper: extractPlaceDetails reads a page
\* showing the text, a page operation may throw at failAt, and
\* getPlaceDetails returns the details when they pass the gate
ExtractPlaceDetailsCall ==
    /\ fn.pc = "input"
    /\ \E h1 \in {CafeA, NULL}, website \in BOOLEAN, failAt \in FailPoints :
         LET details == ExtractPlaceDetails(PageShowing(h1, website, fn.text), failAt) IN
         fn' = [fn EXCEPT !.pc = "extractPlaceDetails", !.failAt = failAt,
                          !.out = details, !.returned = Gate(details)]
    /\ UNCHANGED <<engineVars, sc, store, cli, life, search, fetch>>

ExtractorNext ==
    \/ ExtractPhoneCall
    \/ ExtractEmailsCall
    \/ ExtractPlaceDetailsCall

ExtractorSpec == ExtractorInit /\ [][ExtractorNext]_vars

\* some part of the text is, letter case aside, one of the closed phrases
ContainsClosedPhrase(text) ==
    \E indicator \in ClosedIndicators :
        \E k \in 1..Len(text) :
            /\ k + Len(indicator) - 1 <= Len(text)
            /\ \A j \in 1..Len(indicator) :
                 LowerChar(text[k + j - 1]) = LowerChar(indicator[j])

\* C13: when the text of the detail page contains a closed phrase in any
\* letter case, the details have isActive = FALSE and getPlaceDetails does
\* not return the record.
ClosedNeverEmitted ==
    (fn.pc = "extractPlaceDetails" /\ ContainsClosedPhrase(fn.text)) =>
        /\ fn.out.isActive = FALSE
        /\ ~fn.returned

\* the number of digit characters of x
DigitCount(x) == Cardinality({k \in DOMAIN x : x[k] \in Digits})

\* C17: extractPhone returns null or a string with at least 7 digits.
PhoneHasSevenDigits ==
    fn.pc = "extractPhone" => (fn.out = NULL \/ DigitCount(fn.out) >= 7)

\* extractPhone returned a number from a later pattern after the first
\* pattern's first match had too few digits
PhoneHasSevenDigitsWitness ==
    /\ fn.pc = "extractPhone"
    /\ fn.out # NULL
    /\ DigitCount(fn.out) >= 7
    /\ LET first == AllMatches(PhonePatterns(Len(fn.text))[1], fn.text, 1) IN
       first # <<>> /\ DigitCount(first[1]) < 7

\* the part of an address after its @, in lower case
DomainOf(e) ==
    LET at == CHOOSE k \in DOMAIN e : e[k] = "@" /\ \A j \in DOMAIN e : e[j] = "@" => k <= j
    IN ToLowerCase(SubSeq(e, at + 1, Len(e)))

\* C18: extractEmails returns a list without duplicates and without an
\* entry whose domain is one of the noise domains.
EmailsCleanAndDistinct ==
    fn.pc = "extractEmails" =>
        /\ \A a, b \in DOMAIN fn.out : a # b => fn.out[a] # fn.out[b]
        /\ \A a \in DOMAIN fn.out :
             /\ \E k \in DOMAIN fn.out[a] : fn.out[a][k] = "@"
             /\ DomainOf(fn.out[a]) \notin NoiseDomains

\* extractEmails returned an address from a text that also held a repeated
\* or a noise address
EmailsCleanAndDistinctWitness ==
    /\ fn.pc = "extractEmails"
    /\ fn.out # <<>>
    /\ Len(AllMatches(EmailPattern(Len(fn.text)), fn.text, 1)) > Len(fn.out)

\* C19: when a step of extractPlaceDetails throws, getPlaceDetails returns
\* no record for the listing.
ExtractionErrorNoRecord ==
    (fn.pc = "extractPlaceDetails" /\ fn.failAt # "none") => ~fn.returned

---------------------------------------------------------------------------
(* The session of a run (scraper.js 35-68, 416-435, 445-488).              *)

\* launch() succeeded in this run: the entry point went on to its tasks
Launched == mainPc \notin {"launch"} /\ ~(pending = "throw" /\ taskLog = <<>>)

\* the entry point's promise has settled
Exited == mainPc \in {"returned", "threw"}

\* C14: launch is called once, at the start of the run, and nothing else
\* opens a browser or a context; while searches and fetches of the run are
\* made the session stays open; whenever the entry point exits, by a return
\* or by an error, browser and context are null; a sweep whose launch
\* succeeded closes the session only after it attempted all its tasks.
SessionLifecycle ==
    /\ [](/\ mainPc \in {"search", "pool", "delay"} =>
               browser = "open" /\ context = "open"
          /\ Exited => browser = "null" /\ context = "null"
          /\ (mode = "sweep" /\ Launched /\ mainPc \in {"close", "returned", "threw"}) =>
               Len(taskLog) = nTasks /\ pending = "return")
    /\ [][/\ (browser' = "open" /\ browser # "open") => mainPc = "launch"
          /\ (context' = "open" /\ context # "open") => mainPc = "launch"
          /\ mainPc' = "launch" => mainPc = "launch"
          /\ (browser' # "open" /\ browser = "open") => mainPc = "close"]_vars

\* a sweep returned after one of its tasks failed, and its session is closed
SessionLifecycleWitness ==
    /\ mode = "sweep"
    /\ mainPc = "returned"
    /\ browser = "null" /\ context = "null"
    /\ Len(taskLog) = nTasks
    /\ \E j \in DOMAIN taskLog : Failed(taskLog[j])

\* launch() failed in this run: the entry point is leaving, or has left, with
\* an error and without a task
SetupFailed == mainPc \in {"close", "threw"} /\ pending = "throw" /\ taskLog = <<>>

\* C15: a launch that does not produce a browser and a context makes the
\* entry point leave with the error; then no search was made, no reference
\* was fetched, onResult was not called, and once the caller has the error
\* no browser is open.
SetupFailureFatal ==
    /\ [](SetupFailed =>
            /\ linksUsed = 0
            /\ \A t \in Tasks :
                 /\ workers[t] = <<>>
                 /\ calls[t] = <<>>
                 /\ \A u \in 1..MaxLinks : attempts[t][u] = 0
            /\ progress = <<>>
            /\ returned = <<>>
            /\ mainPc = "threw" => browser = "null" /\ context = "null")
    /\ [][(mainPc = "launch" /\ (browser' # "open" \/ context' # "open")) =>
             /\ mainPc' = "close"
             /\ pending' = "throw"
             /\ taskLog' = <<>>]_vars
    /\ [][(SetupFailed /\ mainPc = "close") => mainPc' = "threw"]_vars

\* newContext failed after the browser was started: the entry point is
\* about to close it and reject
SetupFailureFatalWitness ==
    /\ mainPc = "close"
    /\ pending = "throw"
    /\ taskLog = <<>>
    /\ browser = "open"
    /\ context = "null"

---------------------------------------------------------------------------
(* launch() and close() called directly on a scraper, in any order         *)
(* (scraper.js 35-68).  life.calls is the history of the calls,            *)
(* life.closed counts the browser.close() operations that were performed,  *)
(* life.threw tells whether the last call rejected.                        *)

LifeInit ==
    /\ EngineIdle
    /\ sc = ScrollIdle
    /\ store = StoreIdle
    /\ fn = FnIdle /\ cli = CliIdle /\ search = SearchIdle /\ fetch = FetchIdle
    /\ life = [pc |-> "ready", calls |-> <<>>, closed |-> 0, threw |-> FALSE]

\* scraper.js 35-57: chromium.launch may reject before this.browser is
\* assigned, newContext before this.context is
LifeLaunch ==
    /\ life.pc = "ready"
    /\ Len(life.calls) < MaxCalls
    /\ \E o \in {"ok", "noBrowser", "noContext"} :
         /\ browser' = IF o = "noBrowser" THEN browser ELSE "open"
         /\ context' = IF o = "ok" THEN "open" ELSE context
         /\ life' = [life EXCEPT !.calls = Append(@, "launch"), !.threw = (o # "ok")]
    /\ UNCHANGED <<mode, nTasks, concurrency, mainPc, pending, returned, i,
                   checkedNames, allResults, queue, results, processed, total,
                   workers, calls, progress, attempts, yielded, taskLog, folded,
                   linksUsed, qualified, sc, store, fn, cli, search, fetch>>

\* scraper.js 62-68
LifeClose ==
    /\ life.pc = "ready"
    /\ Len(life.calls) < MaxCalls
    /\ browser' = CloseSession(browser, context).browser
    /\ context' = CloseSession(browser, context).context
    /\ life' = [life EXCEPT !.calls = Append(@, "close"),
                            !.closed = IF browser # "null" THEN @ + 1 ELSE @,
                            !.threw = FALSE]
    /\ UNCHANGED <<mode, nTasks, concurrency, mainPc, pending, returned, i,
                   checkedNames, allResults, queue, results, processed, total,
                   workers, calls, progress, attempts, yielded, taskLog, folded,
                   linksUsed, qualified, sc, store, fn, cli, search, fetch>>

LifeNext ==
    \/ LifeLaunch
    \/ LifeClose

LifeSpec == LifeInit /\ [][LifeNext]_vars

\* this step is a call of close() on a scraper without a browser: one that
\* was never launched, or that was closed and not launched since
ClosesWithoutBrowser ==
    /\ life'.calls = Append(life.calls, "close")
    /\ browser = "null"

\* C16: close() on a scraper that was never launched, or again after a
\* close, performs no browser operation, raises no error and leaves browser
\* and context null.
CloseIdempotent ==
    [][ClosesWithoutBrowser =>
          /\ life'.closed = life.closed
          /\ ~life'.threw
          /\ browser' = "null"
          /\ context' = "null"]_vars

\* close() was called twice in a row after a launch, and once on a scraper
\* that was not launched
CloseIdempotentWitness ==
    /\ life.pc = "ready"
    /\ life.calls = <<"close", "launch", "close", "close">>
    /\ life.closed = 1
    /\ browser = "null" /\ context = "null"

---------------------------------------------------------------------------
(* One search: searchPlaces (scraper.js 109-190) or searchPlacesDirect     *)
(* (scraper.js 495-551).  search holds what the page will show (whether a  *)
(* search input exists, which container selectors appear, how many place   *)
(* links it has), this.activeResultsSelector, and the call's position.     *)

\* extractor.js 9-14 SELECTORS.searchResultsContainer, in order
ContainerSelectors == <<"feed", "results", "section-layout", "region">>

NoSelector == "none"

SearchInit ==
    /\ EngineIdle
    /\ sc = ScrollIdle
    /\ store = StoreIdle
    /\ fn = FnIdle /\ cli = CliIdle /\ life = LifeIdle /\ fetch = FetchIdle
    /\ \E direct \in BOOLEAN, box \in BOOLEAN, links \in 0..MaxLinks,
          appearing \in SUBSET Range(ContainerSelectors),
          stale \in {NoSelector, ContainerSelectors[1]} :
         search = [pc |-> "searchBox", direct |-> direct, box |-> box,
                   appearing |-> appearing, links |-> links,
                   activeResultsSelector |-> stale, trying |-> 1,
                   foundResultsContainer |-> FALSE, extraWait |-> FALSE,
                   scrolled |-> FALSE, activeSelector |-> NoSelector,
                   cause |-> "none", out |-> <<>>]

\* a search that gives up when no container selector matched
AfterContainerLoopFatal(found) == IF found THEN "scroll" ELSE "closing"

\* scraper.js 171-179 and 541-544: after the loop over the container
\* selectors the search goes on to scrollResults, whether or not one matched
AfterContainerLoop(found) == "scroll"

\* scraper.js 141-152 and 518-529: the search input is looked for; without
\* one the search throws, with one the query is submitted
SearchFindBox ==
    /\ search.pc = "searchBox"
    /\ search' = IF search.box
                 THEN [search EXCEPT !.pc = "container"]
                 ELSE [search EXCEPT !.pc = "closing", !.cause = "searchBox"]
    /\ UNCHANGED <<engineVars, sc, store, fn, cli, life, fetch>>

\* scraper.js 161-170 and 536-542: waitForSelector on the next container
\* selector resolves, or times out and the loop continues
SearchWaitContainer ==
    /\ search.pc = "container"
    /\ LET sel == ContainerSelectors[search.trying] IN
       IF sel \in search.appearing
       THEN search' = [search EXCEPT !.foundResultsContainer = TRUE,
                                     !.activeResultsSelector = sel,
                                     !.pc = AfterContainerLoop(TRUE)]
       ELSE IF search.trying < Len(ContainerSelectors)
            THEN search' = [search EXCEPT !.trying = @ + 1]
            ELSE search' = [search EXCEPT
                               !.pc = AfterContainerLoop(FALSE),
                               !.cause = IF AfterContainerLoop(FALSE) = "closing"
                                         THEN "container" ELSE @,
                               !.extraWait = ~search.direct]
    /\ UNCHANGED <<engineVars, sc, store, fn, cli, life, fetch>>

\* scraper.js 201-210: the selector scrollResults works with: the remembered
\* one when there is one, else the first container selector page.$ finds
RECURSIVE FirstPresent(_, _)
FirstPresent(selectors, appearing) ==
    IF selectors = <<>> THEN NoSelector
    ELSE IF Head(selectors) \in appearing THEN Head(selectors)
    ELSE FirstPresent(Tail(selectors), appearing)

ActiveSelector(remembered, appearing) ==
    IF remembered # NoSelector THEN remembered
    ELSE FirstPresent(ContainerSelectors, appearing)

\* scraper.js 180 and 545, 195-240: scrollResults scrolls the container of
\* this.activeResultsSelector, or of the first selector it finds itself, and
\* returns at once without any
SearchScroll ==
    /\ search.pc = "scroll"
    /\ search' = [search EXCEPT
                     !.pc = "links",
                     !.activeSelector =
                         ActiveSelector(search.activeResultsSelector, search.appearing),
                     !.scrolled =
                         ActiveSelector(search.activeResultsSelector, search.appearing)
                             # NoSelector]
    /\ UNCHANGED <<engineVars, sc, store, fn, cli, life, fetch>>

\* scraper.js 183-186 and 547: extractPlaceLinks, return
SearchExtractLinks ==
    /\ search.pc = "links"
    /\ search' = [search EXCEPT !.pc = "closing", !.out = Links(search.links)]
    /\ UNCHANGED <<engineVars, sc, store, fn, cli, life, fetch>>

\* a page operation of the search (goto, fill, press, evaluate) rejects
SearchOperationRejects ==
    /\ search.pc \in {"searchBox", "scroll", "links"}
    /\ search' = [search EXCEPT !.pc = "closing", !.cause = "operation"]
    /\ UNCHANGED <<engineVars, sc, store, fn, cli, life, fetch>>

\* scraper.js 187-189 and 548-550: finally { await page.close() }
SearchClosePage ==
    /\ search.pc = "closing"
    /\ search' = [search EXCEPT !.pc = IF search.cause = "none" THEN "returned" ELSE "threw"]
    /\ UNCHANGED <<engineVars, sc, store, fn, cli, life, fetch>>

SearchNext ==
    \/ SearchFindBox
    \/ SearchWaitContainer
    \/ SearchScroll
    \/ SearchExtractLinks
    \/ SearchOperationRejects
    \/ SearchClosePage

SearchSpec == SearchInit /\ [][SearchNext]_vars

SearchSettled == search.pc \in {"returned", "threw"}

\* C20 as stated: a search whose query was submitted and for which no
\* container selector ever matched ends in an error.
MissingContainerFails ==
    (SearchSettled /\ search.box /\ search.appearing = {}) => search.pc = "threw"

\* C20: a results container that never appears does not make the search
\* fail.  The search rejects exactly when the search input was not found or
\* a page operation rejected; otherwise, with or without a container, it
\* returns the place links of the page, and without a container and without
\* a selector kept from an earlier search nothing was scrolled.
MissingContainerTolerated ==
    /\ search.cause \in {"none", "searchBox", "operation"}
    /\ search.cause = "searchBox" => ~search.box
    /\ search.pc = "threw" => search.cause # "none"
    /\ search.pc = "returned" =>
         /\ search.cause = "none"
         /\ search.out = Links(search.links)
         /\ search.foundResultsContainer <=> search.appearing # {}
         /\ (search.appearing = {} /\ search.activeResultsSelector = NoSelector) =>
              ~search.scrolled

\* a search returned place links although no container selector matched
MissingContainerToleratedWitness ==
    /\ search.pc = "returned"
    /\ search.appearing = {}
    /\ ~search.foundResultsContainer
    /\ search.out # <<>>

\* C30: the selector scrollResults scrolls with was observed present on the
\* page of the same search; a selector remembered from an earlier search is
\* never used on a page on which no container selector matched.
NoStaleSelector ==
    search.scrolled =>
        /\ search.activeSelector \in search.appearing
        /\ search.foundResultsContainer

---------------------------------------------------------------------------
(* The worker pool of processPlaces.                                       *)

RECURSIVE Sum(_, _)
Sum(f, n) == IF n = 0 THEN 0 ELSE f[n] + Sum(f, n - 1)

\* the getPlaceDetails calls processPlaces call t has made so far
FetchesStarted(t) == Sum(attempts[t], MaxLinks)

WorkersIn(t, pcs) == {k \in DOMAIN workers[t] : workers[t][k].pc \in pcs}

\* the getPlaceDetails calls of call t that have not settled
InFlight(t) == WorkersIn(t, {"fetching", "lookup", "closing"})

WorkerCountRule ==
    \A t \in Tasks :
        /\ Len(workers[t]) <= concurrency
        /\ Len(workers[t]) <= total[t]
        /\ Len(workers[t]) = concurrency \/ Len(workers[t]) = total[t]
        /\ Cardinality(InFlight(t)) <= Len(workers[t])
        /\ FetchesStarted(t) - processed[t]
               - Cardinality(WorkersIn(t, {"rejected"})) = Cardinality(InFlight(t))
        /\ \A k \in WorkersIn(t, {"done"}) : queue[t] = <<>>

\* processPlaces call i returns its results in this step
PoolReturnsNow ==
    /\ Len(taskLog') = Len(taskLog) + 1
    /\ taskLog'[Len(taskLog')].outcome = "ok"

ReturnsAfterLastFetch ==
    PoolReturnsNow =>
        /\ InFlight(i) = {}
        /\ WorkersIn(i, {"done"}) = DOMAIN workers[i]
        /\ processed[i] = total[i]

AllWorkersEnded ==
    \A t \in Tasks : WorkersIn(t, {"done", "rejected"}) = DOMAIN workers[t]

\* C22: for a queue of length L and concurrency N processPlaces starts
\* exactly min(N, L) workers, never more than that many getPlaceDetails calls
\* are in flight (every call started and not yet counted or rejected belongs
\* to one worker), a worker ends its loop only on an empty queue,
\* processPlaces returns only when every worker has ended its loop and all L
\* references were processed, and every worker eventually terminates.
WorkerCount ==
    /\ []WorkerCountRule
    /\ [][ReturnsAfterLastFetch]_vars
    /\ <>[]AllWorkersEnded

\* a call with more references than workers has returned
WorkerCountWitness ==
    \E t \in Tasks :
        /\ Resolved(t)
        /\ total[t] > concurrency
        /\ Len(workers[t]) = concurrency
        /\ processed[t] = total[t]
        /\ \E e \in Range(taskLog) : e.task = t /\ e.outcome = "ok"

---------------------------------------------------------------------------
(* The secondary lookup in getPlaceDetails.                                *)

InLookup(ws, k) == k \in DOMAIN ws /\ ws[k].pc = "lookup"

\* worker k of call t calls searchEmailForBusiness in this step
LookupStarts(t, k) == InLookup(workers'[t], k) /\ ~InLookup(workers[t], k)

\* the name the lookup of a worker is made for
LookupName(w) == ToLowerCase(w.held[1].name)

LookupOnlyForFresh ==
    \A t \in Tasks, k \in 1..MaxWorkers :
        LookupStarts(t, k) =>
            LET w == workers'[t][k] IN
            /\ Len(w.held) = 1
            /\ Qualifies(w.held[1])
            /\ w.held[1].emails = <<>>
            /\ LookupName(w) \notin checkedNames
            /\ LookupName(w) \in checkedNames'

LookupsDistinct ==
    \A a, b \in WorkerIds :
        (a # b /\ WorkerAt(a).pc = "lookup" /\ WorkerAt(b).pc = "lookup") =>
            LookupName(WorkerAt(a)) # LookupName(WorkerAt(b))

\* C25: searchEmailForBusiness is called only for a listing whose lower-cased
\* name was not in the dedup set, that qualifies and had no email extracted;
\* the call puts the name into the set and the set never loses a name, so
\* over the whole run, in every interleaving of the workers, there is at
\* most one lookup per lower-cased name and none for a name seen before.
LookupAtMostOnce ==
    /\ [][LookupOnlyForFresh]_vars
    /\ [][checkedNames \subseteq checkedNames']_vars
    /\ []LookupsDistinct

\* one worker is in the lookup for a name while another worker, whose
\* qualifying listing resolved to that name, goes on without a lookup
LookupAtMostOnceWitness ==
    \E a, b \in WorkerIds :
        /\ WorkerAt(a).pc = "lookup"
        /\ WorkerAt(b).pc = "closing"
        /\ WorkerAt(b).dup = <<LookupName(WorkerAt(a))>>
        /\ WorkerAt(b).ret = <<>>

---------------------------------------------------------------------------
(* The pages of one worker over the runs of one scraper object.  A run is  *)
(* a call of scrape (one search, scraper.js 416-435) or of                 *)
(* scrapeWithSubdivision (a search per task, 445-488); after the search    *)
(* the worker calls getPlaceDetails (247-290) for one reference after the  *)
(* other, and getPlaceDetails may call searchEmailForBusiness (298-369).   *)
(* fetch.pages are the open pages of the context, fetch.checkedNames is    *)
(* this.checkedNames; d, held, ret and lret are locals of the call in      *)
(* flight; before, atStart, caught, lookupFailed, disqualified and out are *)
(* history.                                                                *)

\* context.newPage() resolved: one more page of the kind is open
FreshId(pages) ==
    CHOOSE n \in 1..(Cardinality(pages) + 1) : \A p \in pages : p.id # n

OpenPage(pages, kind) == pages \cup {[id |-> FreshId(pages), kind |-> kind]}

\* a close that leaves the page open
ClosePageLeaves(pages, kind) == pages

\* page.close() in a finally block (scraper.js 188, 288, 367, 549); when it
\* rejects, the page or its browser is gone as well
ClosePage(pages, kind) == {p \in pages : p.kind # kind}

\* no call in flight: the locals of getPlaceDetails are gone
NoCall(f) ==
    [f EXCEPT !.d = <<>>, !.held = <<>>, !.ret = <<>>, !.lret = NULL,
              !.before = {}, !.caught = FALSE, !.lookupFailed = FALSE]

\* scraper.js 432-434 and 475-478: an error ends scrape; the sweep logs it
\* and goes on with its next task
Failing(f, out) == NoCall([f EXCEPT !.pc = "failed", !.out = out])

FetchInit ==
    /\ EngineIdle
    /\ sc = ScrollIdle
    /\ store = StoreIdle
    /\ fn = FnIdle /\ cli = CliIdle /\ life = LifeIdle /\ search = SearchIdle
    /\ \E direct \in BOOLEAN :
         fetch = [pc |-> "start", direct |-> direct, run |-> 1, task |-> 1,
                  fetches |-> 0, checkedNames |-> {}, pages |-> {},
                  d |-> <<>>, held |-> <<>>, ret |-> <<>>, lret |-> NULL,
                  before |-> {}, atStart |-> {}, caught |-> FALSE,
                  lookupFailed |-> FALSE, disqualified |-> {}, out |-> "none"]

\* scraper.js 110 and 496: the search's newPage() resolves
SearchPageOpens ==
    /\ fetch.pc = "start"
    /\ fetch' = [fetch EXCEPT !.pc = "search", !.pages = OpenPage(@, "search")]
    /\ UNCHANGED <<engineVars, sc, store, fn, cli, life, search>>

\* scraper.js 110 and 496: newPage() rejects before the try block; no page
\* was opened
SearchPageFails ==
    /\ fetch.pc = "start"
    /\ fetch' = Failing(fetch, "threw")
    /\ UNCHANGED <<engineVars, sc, store, fn, cli, life, search>>

\* scraper.js 115-186 and 498-547: the body of the try block returns the
\* links or throws
SearchWorks ==
    /\ fetch.pc = "search"
    /\ \E ok \in BOOLEAN :
         fetch' = [fetch EXCEPT !.pc = "searchClose",
                                !.out = IF ok THEN "links" ELSE "threw"]
    /\ UNCHANGED <<engineVars, sc, store, fn, cli, life, search>>

\* scraper.js 187-189 and 548-550: finally { await page.close() }
SearchPageCloses ==
    /\ fetch.pc = "searchClose"
    /\ \E rejects \in BOOLEAN :
         LET f == [fetch EXCEPT !.pages = ClosePage(@, "search")] IN
         fetch' = IF rejects \/ fetch.out = "threw"
                  THEN Failing(f, "threw")
                  ELSE [f EXCEPT !.pc = "ready"]
    /\ UNCHANGED <<engineVars, sc, store, fn, cli, life, search>>

\* scraper.js 385-387 and 248: the worker takes a reference and
\* getPlaceDetails' newPage() resolves
DetailPageOpens ==
    /\ fetch.pc = "ready"
    /\ fetch.fetches < MaxPerRun
    /\ fetch' = [NoCall(fetch) EXCEPT
                    !.pc = "goto", !.fetches = @ + 1, !.out = "none",
                    !.before = fetch.checkedNames,
                    !.pages = OpenPage(@, "detail")]
    /\ UNCHANGED <<engineVars, sc, store, fn, cli, life, search>>

\* scraper.js 248: newPage() rejects before the try block: getPlaceDetails
\* and the worker reject, no page was opened
DetailPageFails ==
    /\ fetch.pc = "ready"
    /\ fetch.fetches < MaxPerRun
    /\ fetch' = Failing([fetch EXCEPT !.fetches = @ + 1], "rejected")
    /\ UNCHANGED <<engineVars, sc, store, fn, cli, life, search>>

\* scraper.js 256-257 and 284-286: goto or the wait throws, the catch block
\* makes the call return null
GotoFails ==
    /\ fetch.pc = "goto"
    /\ fetch' = [fetch EXCEPT !.pc = "detailClose", !.caught = TRUE, !.ret = <<>>]
    /\ UNCHANGED <<engineVars, sc, store, fn, cli, life, search>>

\* scraper.js 260-283: extractPlaceDetails returned d; dedup check,
\* registration and gate
DetailsExtracted ==
    /\ fetch.pc = "goto"
    /\ \E d \in ExtractedDetails :
         LET f == [fetch EXCEPT !.d = <<d>>] IN
         fetch' =
           IF AlreadyChecked(d, fetch.checkedNames)
           THEN [f EXCEPT !.pc = "detailClose"]
           ELSE LET g == [f EXCEPT
                            !.checkedNames = Register(d, @),
                            !.disqualified =
                                IF Truthy(d.name) /\ ~Gate(d)
                                THEN @ \cup {ToLowerCase(d.name)} ELSE @]
                IN  IF Gate(d)
                    THEN IF NeedsLookup(d)
                         THEN [g EXCEPT !.pc = "lookupOpen", !.held = <<d>>]
                         ELSE [g EXCEPT !.pc = "detailClose", !.ret = <<d>>]
                    ELSE [g EXCEPT !.pc = "detailClose"]
    /\ UNCHANGED <<engineVars, sc, store, fn, cli, life, search>>

\* scraper.js 275 and 299: the lookup's newPage() resolves
LookupPageOpens ==
    /\ fetch.pc = "lookupOpen"
    /\ fetch' = [fetch EXCEPT !.pc = "lookupWork", !.pages = OpenPage(@, "lookup")]
    /\ UNCHANGED <<engineVars, sc, store, fn, cli, life, search>>

\* scraper.js 299: the lookup's newPage() rejects before the lookup's try
\* block; the rejection reaches getPlaceDetails' catch block (284-286)
LookupPageFails ==
    /\ fetch.pc = "lookupOpen"
    /\ fetch' = [fetch EXCEPT !.pc = "detailClose", !.caught = TRUE,
                              !.lookupFailed = TRUE, !.ret = <<>>]
    /\ UNCHANGED <<engineVars, sc, store, fn, cli, life, search>>

\* scraper.js 301-366: the lookup finds an address or none, or an operation
\* throws and its catch block returns null
LookupWorks ==
    /\ fetch.pc = "lookupWork"
    /\ \E found \in LookupResults, throws \in BOOLEAN :
         fetch' = [fetch EXCEPT
                      !.pc = "lookupClose",
                      !.lret = IF throws THEN NULL ELSE found,
                      !.lookupFailed = throws \/ found = NULL]
    /\ UNCHANGED <<engineVars, sc, store, fn, cli, life, search>>

\* scraper.js 366-368 then 276-280: the lookup's page.close() resolves and
\* the answer is folded into the record, or it rejects and getPlaceDetails'
\* catch block makes the call return null
LookupPageCloses ==
    /\ fetch.pc = "lookupClose"
    /\ \E rejects \in BOOLEAN :
         LET f == [fetch EXCEPT !.pc = "detailClose",
                                !.pages = ClosePage(@, "lookup")] IN
         fetch' = IF rejects
                  THEN [f EXCEPT !.caught = TRUE, !.lookupFailed = TRUE, !.ret = <<>>]
                  ELSE [f EXCEPT !.ret = <<WithFoundEmail(fetch.held[1], fetch.lret)>>]
    /\ UNCHANGED <<engineVars, sc, store, fn, cli, life, search>>

\* scraper.js 287-289: getPlaceDetails' page.close() resolves and the call
\* returns, or it rejects and the call and the worker reject
DetailPageCloses ==
    /\ fetch.pc = "detailClose"
    /\ \E rejects \in BOOLEAN :
         LET f == [fetch EXCEPT !.pages = ClosePage(@, "detail")] IN
         fetch' = IF rejects
                  THEN Failing(f, "rejected")
                  ELSE NoCall([f EXCEPT
                          !.pc = "ready",
                          !.out = IF fetch.ret # <<>> THEN "record" ELSE "null"])
    /\ UNCHANGED <<engineVars, sc, store, fn, cli, life, search>>

\* scraper.js 451-481: the sweep goes on with its next task
NextSearch ==
    /\ fetch.pc \in {"ready", "failed"}
    /\ fetch.direct
    /\ fetch.task < MaxTasks
    /\ fetch' = [fetch EXCEPT !.pc = "start", !.task = @ + 1]
    /\ UNCHANGED <<engineVars, sc, store, fn, cli, life, search>>

\* scraper.js 432-434 and 485-487: the run ends and close() is called
RunEnds ==
    /\ fetch.pc \in {"ready", "failed"}
    /\ fetch' = [fetch EXCEPT !.pc = "ended"]
    /\ UNCHANGED <<engineVars, sc, store, fn, cli, life, search>>

\* scrape or scrapeWithSubdivision is called again on the same object
\* (scraper.js 416-418, 445-449); nothing but the constructor (29) assigns
\* this.checkedNames
RunAgain ==
    /\ fetch.pc = "ended"
    /\ fetch.run < MaxRuns
    /\ \E direct \in BOOLEAN :
         fetch' = [fetch EXCEPT !.pc = "start", !.direct = direct, !.run = @ + 1,
                                !.task = 1, !.fetches = 0, !.out = "none",
                                !.atStart = fetch.checkedNames]
    /\ UNCHANGED <<engineVars, sc, store, fn, cli, life, search>>

FetchNext ==
    \/ SearchPageOpens
    \/ SearchPageFails
    \/ SearchWorks
    \/ SearchPageCloses
    \/ DetailPageOpens
    \/ DetailPageFails
    \/ GotoFails
    \/ DetailsExtracted
    \/ LookupPageOpens
    \/ LookupPageFails
    \/ LookupWorks
    \/ LookupPageCloses
    \/ DetailPageCloses
    \/ NextSearch
    \/ RunEnds
    \/ RunAgain

FetchSpec == FetchInit /\ [][FetchNext]_vars

PagesOfKind(kind) == {p \in fetch.pages : p.kind = kind}

Kinds(pages) == {p.kind : p \in pages}

\* getPlaceDetails has called searchEmailForBusiness and that call holds a page
LookupHoldsPage == fetch.pc \in {"lookupWork", "lookupClose"}

\* C23 as stated: the worker never holds more than one open page, also not
\* during the secondary lookup.
OnePagePerWorker == Cardinality(fetch.pages) <= 1

\* C23, amended: a worker holds at most two open pages, and two only while
\* its secondary lookup holds a page: then the detail page of the work item
\* and the lookup's own page are open; at all other times at most one page
\* is open, and none between two work items.
PagesPerWorker ==
    /\ Cardinality(fetch.pages) <= 2
    /\ LookupHoldsPage <=> Cardinality(fetch.pages) = 2
    /\ LookupHoldsPage => Kinds(fetch.pages) = {"detail", "lookup"}
    /\ \A kind \in Kinds(fetch.pages) : Cardinality(PagesOfKind(kind)) = 1

\* in the second work item of a run the lookup page is open next to the
\* detail page
PagesPerWorkerWitness ==
    /\ fetch.pc = "lookupWork"
    /\ fetch.fetches = 2
    /\ Cardinality(fetch.pages) = 2

\* C24: every page opened by a search, by getPlaceDetails or by
\* searchEmailForBusiness is closed when that operation has returned or
\* thrown: a page of a kind is open only while the operation that opened
\* it is in flight, and between operations no page is open.
PagesClosedOnExit ==
    /\ fetch.pc \notin {"search", "searchClose"} => PagesOfKind("search") = {}
    /\ ~LookupHoldsPage => PagesOfKind("lookup") = {}
    /\ fetch.pc \notin {"goto", "lookupOpen", "lookupWork", "lookupClose", "detailClose"}
           => PagesOfKind("detail") = {}
    /\ fetch.pc \in {"start", "ready", "failed", "ended"} => fetch.pages = {}

\* a work item ended in an error after its details had been extracted, and
\* no page is open
PagesClosedOnExitWitness ==
    /\ fetch.pc = "failed"
    /\ fetch.out = "rejected"
    /\ fetch.checkedNames # {}
    /\ fetch.pages = {}

\* getPlaceDetails has settled what it will return and stands in its
\* finally block
FetchSettled == fetch.pc = "detailClose"

\* the lower-cased name of the details of the call in flight
DerivedName == ToLowerCase(fetch.d[1].name)

\* C26: whenever the secondary lookup failed or found nothing, the fetch
\* still returns the qualifying record, with the emails it had before the
\* lookup.
EnrichmentFailureHarmless ==
    (FetchSettled /\ fetch.lookupFailed) =>
        (fetch.ret = fetch.held /\ ~fetch.caught)

\* C27: at the start of every run the set of checked names is empty, and the
\* first listing of a run that qualifies and whose fetch raised no error
\* gives its record.
DedupSetFreshPerRun ==
    /\ (fetch.pc = "start" /\ fetch.task = 1) => fetch.checkedNames = {}
    /\ (FetchSettled /\ fetch.fetches = 1 /\ ~fetch.caught /\ fetch.d # <<>>) =>
           (Gate(fetch.d[1]) => fetch.ret # <<>>)

RegisteredBeforeGate ==
    /\ fetch.before \subseteq fetch.checkedNames
    /\ fetch.atStart \subseteq fetch.checkedNames
    /\ (fetch.d # <<>> /\ Truthy(fetch.d[1].name)) =>
           /\ DerivedName \in fetch.checkedNames
           /\ fetch.checkedNames = fetch.before \cup {DerivedName}
           /\ DerivedName \in fetch.before =>
                  /\ fetch.ret = <<>>
                  /\ fetch.held = <<>>
                  /\ FetchSettled

\* C28: a derived name that is not in the dedup set is added, lower-cased,
\* whether or not the listing then passes the no-website/active gate; the
\* set never loses a name; and a reference whose name is in the set returns
\* null without a lookup, whether or not its listing would qualify.
DedupBeforeGate ==
    /\ []RegisteredBeforeGate
    /\ [][fetch.checkedNames \subseteq fetch'.checkedNames]_vars

\* a listing that qualifies returns null because a disqualified listing of
\* the same name was fetched before
DedupBeforeGateWitness ==
    /\ FetchSettled
    /\ fetch.d # <<>>
    /\ Gate(fetch.d[1])
    /\ DerivedName \in fetch.disqualified
    /\ DerivedName \in fetch.before
    /\ fetch.ret = <<>>

\* C29: when getPlaceDetails caught an exception and returns null, the
\* dedup set is what it was before the fetch.
FailedFetchKeepsName ==
    (FetchSettled /\ fetch.caught) =>
        (fetch.ret = <<>> /\ fetch.checkedNames = fetch.before)

---------------------------------------------------------------------------
(* The records a sweep streams and the records it returns.                 *)

\* the records given to onResult so far, by all processPlaces calls
Streamed == UNION {Range(calls[t]) : t \in Tasks}

KeysOf(rs) == {DedupKey(r) : r \in rs}

SweepReturned == mode = "sweep" /\ mainPc = "returned" /\ pending = "return"

\* C31: when scrapeWithSubdivision has returned, the DedupKeys of the
\* records given to onResult are the DedupKeys of the returned collection.
StreamedAgreesWithReturned ==
    SweepReturned => KeysOf(Streamed) = KeysOf(Range(returned))

---------------------------------------------------------------------------
(* The order in which extractPhone considers the matches.                  *)

\* the matches of all phone patterns: pattern by pattern, and within a
\* pattern in text order
RECURSIVE MatchesInPriorityOrder(_, _)
MatchesInPriorityOrder(text, j) ==
    IF j > Len(PhonePatterns(Len(text))) THEN <<>>
    ELSE AllMatches(PhonePatterns(Len(text))[j], text, 1)
             \o MatchesInPriorityOrder(text, j + 1)

\* the first entry, trimmed, with at least 7 digits, or null
RECURSIVE FirstWithSevenDigits(_)
FirstWithSevenDigits(matches) ==
    IF matches = <<>> THEN NULL
    ELSE IF DigitCount(Head(matches)) >= 7 THEN Trim(Head(matches))
    ELSE FirstWithSevenDigits(Tail(matches))

\* C32: extractPhone returns the first match, patterns in their order and
\* matches of a pattern in text order, that has at least 7 digits, and null
\* only when no match of any pattern has 7 digits.
PhoneFirstQualifyingMatch ==
    fn.pc = "extractPhone" =>
        fn.out = FirstWithSevenDigits(MatchesInPriorityOrder(fn.text, 1))

---------------------------------------------------------------------------
(* The email functions on the text of a page: extractEmails (extractor.js  *)
(* 68-87) and the part of searchEmailForBusiness that picks an address     *)
(* from the content of the result page (scraper.js 333-362).               *)

\* scraper.js 339-345
Blacklist ==
    { <<"e", "x", "a", "m", "p", "l", "e", ".", "c", "o", "m">>,
      <<"g", "o", "o", "g", "l", "e", ".", "c", "o", "m">>,
      <<"g", "s", "t", "a", "t", "i", "c", ".", "c", "o", "m">>,
      <<"g", "o", "o", "g", "l", "e", "a", "p", "i", "s", ".", "c", "o", "m">>,
      <<"s", "c", "h", "e", "m", "a", ".", "o", "r", "g">>,
      <<"w", "3", ".", "o", "r", "g">>,
      <<"f", "a", "c", "e", "b", "o", "o", "k", ".", "c", "o", "m">>,
      <<"t", "w", "i", "t", "t", "e", "r", ".", "c", "o", "m">>,
      <<"d", "u", "c", "k", "d", "u", "c", "k", "g", "o", ".", "c", "o", "m">>,
      <<"b", "i", "n", "g", ".", "c", "o", "m">>,
      <<"y", "a", "h", "o", "o", ".", "c", "o", "m">>,
      <<"m", "i", "c", "r", "o", "s", "o", "f", "t", ".", "c", "o", "m">>,
      <<"a", "p", "p", "l", "e", ".", "c", "o", "m">>,
      <<"a", "m", "a", "z", "o", "n", ".", "c", "o", "m">>,
      <<"i", "n", "s", "t", "a", "g", "r", "a", "m", ".", "c", "o", "m">>,
      <<"l", "i", "n", "k", "e", "d", "i", "n", ".", "c", "o", "m">>,
      <<"y", "o", "u", "t", "u", "b", "e", ".", "c", "o", "m">>,
      <<"w", "h", "a", "t", "s", "a", "p", "p", ".", "c", "o", "m">>,
      <<"t", "r", "i", "p", "a", "d", "v", "i", "s", "o", "r", ".", "c", "o", "m">> }

\* scraper.js 347-350: matches.filter(...)
RECURSIVE ValidEmails(_)
ValidEmails(matches) ==
    IF matches = <<>> THEN <<>>
    ELSE (IF \E domain \in Blacklist : Includes(ToLowerCase(Head(matches)), domain)
          THEN <<>> ELSE <<Head(matches)>>)
         \o ValidEmails(Tail(matches))

GmailCom == <<"g", "m", "a", "i", "l", ".", "c", "o", "m">>

\* scraper.js 353: validEmails.find(e => e.toLowerCase().includes('gmail.com'))
RECURSIVE FindGmail(_)
FindGmail(validEmails) ==
    IF validEmails = <<>> THEN NULL
    ELSE IF Includes(ToLowerCase(Head(validEmails)), GmailCom) THEN Head(validEmails)
    ELSE FindGmail(Tail(validEmails))

\* scraper.js 333-362: the address picked from the page content, or null
PickEmail(pageContent) ==
    LET matches == AllMatches(EmailPattern(Len(pageContent)), pageContent, 1)
        validEmails == ValidEmails(matches)
    IN  IF matches = <<>> THEN NULL
        ELSE IF FindGmail(validEmails) # NULL THEN FindGmail(validEmails)
        ELSE IF validEmails # <<>> THEN validEmails[1]
        ELSE NULL

\* pieces of text a detail page or a result page can show
MailFragments ==
    { <<"a", "@", "b", ".", "c", "o", " ">>,
      <<"g", "@", "g", "m", "a", "i", "l", ".", "c", "o", "m", " ">>,
      <<"x", "@", "n", "o", "t", "g", "m", "a", "i", "l", ".", "c", "o", "m", " ">>,
      <<"n", "@", "n", "o", "t", "g", "o", "o", "g", "l", "e", ".", "c", "o", "m", " ">>,
      <<"i", "@", "m", "a", "p", "s", ".", "g", "o", "o", "g", "l", "e", ".", "c", "o", "m", " ">>,
      <<"m", "@", "y", "a", "h", "o", "o", ".", "c", "o", "m", " ">>,
      <<"B", "@", "B", ".", "C", "O", " ">>,
      <<"h", "i", " ">> }

\* the texts made of at most n of these pieces
RECURSIVE MailTextsUpTo(_)
MailTextsUpTo(n) ==
    IF n = 0 THEN {<<>>}
    ELSE MailTextsUpTo(n - 1) \cup {t \o f : t \in MailTextsUpTo(n - 1), f \in MailFragments}

MailInit ==
    /\ EngineIdle
    /\ sc = ScrollIdle
    /\ store = StoreIdle
    /\ cli = CliIdle /\ life = LifeIdle /\ search = SearchIdle /\ fetch = FetchIdle
    /\ \E text \in MailTextsUpTo(MaxFragments) :
         fn = [pc |-> "input", text |-> text, failAt |-> "none",
               out |-> <<>>, returned |-> FALSE]

\* scraper.js 333-362 on the content of the result page
PickEmailCall ==
    /\ fn.pc = "input"
    /\ fn' = [fn EXCEPT !.pc = "searchEmailForBusiness", !.out = PickEmail(fn.text)]
    /\ UNCHANGED <<engineVars, sc, store, cli, life, search, fetch>>

MailNext ==
    \/ ExtractEmailsCall
    \/ PickEmailCall

MailSpec == MailInit /\ [][MailNext]_vars

\* x ends with suffix
EndsWith(x, suffix) ==
    Len(suffix) <= Len(x) /\ SubSeq(x, Len(x) - Len(suffix) + 1, Len(x)) = suffix

\* the domain of address e is one of the domains or a subdomain of one
OnDomain(e, domains) ==
    \E d \in domains : DomainOf(e) = d \/ EndsWith(DomainOf(e), <<".">> \o d)

\* the entries of matches that are not on one of the domains
RECURSIVE Survivors(_, _)
Survivors(matches, domains) ==
    IF matches = <<>> THEN <<>>
    ELSE (IF OnDomain(Head(matches), domains) THEN <<>> ELSE <<Head(matches)>>)
         \o Survivors(Tail(matches), domains)

EmailMatches(text) == AllMatches(EmailPattern(Len(text)), text, 1)

\* C33: extractEmails returns the email matches whose domain is not a noise
\* domain, each once, in the order of their first occurrence; no match on
\* another domain is removed.
EmailsExactlySurvivors ==
    fn.pc = "extractEmails" =>
        fn.out = Distinct(Survivors(EmailMatches(fn.text), NoiseDomains))

\* C34: of the matches that are not on a blacklisted domain,
\* searchEmailForBusiness returns one on the free-mail domain when there is
\* one, else the first of them, else null; it never returns an address on a
\* blacklisted domain.
LookupPreferenceOrder ==
    fn.pc = "searchEmailForBusiness" =>
        LET survivors == Survivors(EmailMatches(fn.text), Blacklist)
        IN  /\ fn.out # NULL => ~OnDomain(fn.out, Blacklist)
            /\ IF \E k \in DOMAIN survivors : OnDomain(survivors[k], {GmailCom})
               THEN fn.out # NULL /\ OnDomain(fn.out, {GmailCom})
                    /\ \E k \in DOMAIN survivors : survivors[k] = fn.out
               ELSE IF survivors # <<>> THEN fn.out = survivors[1]
               ELSE fn.out = NULL

============================================================================
